---- MODULE Spec2Model ----
(***************************************************************************)
(* A model of the rust_core_processor crate: the HTML-to-Document          *)
(* pipeline of lib.rs, the text cleaner and chunker of cleaner.rs, the     *)
(* extractors of extractor.rs / extractor/*.rs, the language detector and  *)
(* the content scorer.                                                     *)
(*                                                                         *)
(* Strings are modelled as sequences of one-character strings, so that     *)
(* len(), trim(), split() and friends are computed as the code computes    *)
(* them.  Where multi-byte characters matter, strings are sequences of     *)
(* runs of one character with its UTF-8 width.                             *)
(***************************************************************************)
EXTENDS Integers, Sequences, FiniteSets, TLC

(***************************************************************************)
(* Bounds of the model.                                                    *)
(***************************************************************************)
\* longest text handed to create_chunks
MaxTextLen == 6
\* largest max_size handed to create_chunks
MaxSize == 3
\* the longest text clean_text is called on, in pieces
MaxPieces == 4
\* the most headings a chunk is matched against
MaxHeadings == 4

(***************************************************************************)
(* State.  Each function under study has its own group of variables; a     *)
(* specification runs one group and leaves the other groups idle.          *)
(***************************************************************************)
VARIABLES
    text,           \* create_chunks: the text argument
    max_size,       \* create_chunks: the max_size argument
    min_size,       \* create_chunks: the min_size argument
    sentences,      \* the part of `sentences` / `words` the loop has not visited yet
    current_chunk,  \* the running buffer
    chunks,         \* the chunks pushed so far (the return value at "done")
    ck_pc,          \* position in create_chunks
    call_fn,        \* the function called on its own
    call_arg,       \* its argument
    call_out,       \* its outcome
    call_pc,        \* "call" before the call, "returned" or "aborted" after it
    page,           \* process_html: what html_content and url hold
    doc,            \* internal_process_html: the ProcessedDocument `doc`
    result,         \* process_html: the dict it returns
    pipe_pc,        \* position in process_html / internal_process_html
    cell,           \* the Lazy statics: state word, slot, runs of the closure
    worker          \* the threads that use the statics

chunkVars == <<text, max_size, min_size, sentences, current_chunk, chunks, ck_pc>>
callVars == <<call_fn, call_arg, call_out, call_pc>>
pipeVars == <<page, doc, result, pipe_pc>>
lazyVars == <<cell, worker>>
vars == <<chunkVars, callVars, pipeVars, lazyVars>>

\* the groups a specification of one group leaves idle
nonChunkVars == <<callVars, pipeVars, lazyVars>>
nonCallVars == <<chunkVars, pipeVars, lazyVars>>
nonPipeVars == <<chunkVars, callVars, lazyVars>>
nonLazyVars == <<chunkVars, callVars, pipeVars>>

ChunkIdle ==
    /\ text = <<>> /\ max_size = 0 /\ min_size = 0
    /\ sentences = <<>> /\ current_chunk = <<>> /\ chunks = <<>> /\ ck_pc = "idle"
CallIdle ==
    /\ call_fn = "none" /\ call_arg = <<>> /\ call_pc = "idle"
    /\ call_out = [overflow |-> FALSE, ret |-> [some |-> FALSE, val |-> <<>>]]
PipeIdle ==
    /\ page = <<>> /\ doc = <<>> /\ result = <<>> /\ pipe_pc = "idle"
LazyIdle ==
    /\ cell = <<>> /\ worker = <<>>

(***************************************************************************)
(* Generic string helpers (Rust std semantics).                            *)
(***************************************************************************)
\* the characters texts are built from: a letter, a blank and a full stop
Alphabet == {"a", " ", "."}

\* char::is_whitespace on the model's alphabet
IsWhitespace(c) == c = " "

\* all strings over S of length 0..n
StringsUpTo(S, n) == UNION {[1..k -> S] : k \in 0..n}

RECURSIVE TrimStart(_)
\* str::trim_start
TrimStart(s) ==
    IF s # <<>> /\ IsWhitespace(Head(s)) THEN TrimStart(Tail(s)) ELSE s

RECURSIVE TrimEnd(_)
\* str::trim_end
TrimEnd(s) ==
    IF s # <<>> /\ IsWhitespace(s[Len(s)])
    THEN TrimEnd(SubSeq(s, 1, Len(s) - 1))
    ELSE s

\* str::trim
Trim(s) == TrimEnd(TrimStart(s))

\* str::ends_with('.')
EndsWithPeriod(s) == s # <<>> /\ s[Len(s)] = "."

\* position of the first ". " in s, or 0 when there is none   (str::find)
FindPeriodSpace(s) ==
    LET hits == {i \in 1..(Len(s) - 1) : s[i] = "." /\ s[i + 1] = " "}
    IN  IF hits = {} THEN 0 ELSE CHOOSE i \in hits : \A j \in hits : i <= j

RECURSIVE SplitSentences(_)
\* text.split(". ").collect(): leftmost non-overlapping matches, empty
\* pieces kept
SplitSentences(s) ==
    LET p == FindPeriodSpace(s)
    IN  IF p = 0
        THEN <<s>>
        ELSE <<SubSeq(s, 1, p - 1)>> \o SplitSentences(SubSeq(s, p + 2, Len(s)))

RECURSIVE SplitWhitespaceAcc(_, _)
\* helper of SplitWhitespace: cur is the word being read
SplitWhitespaceAcc(s, cur) ==
    IF s = <<>>
    THEN IF cur = <<>> THEN <<>> ELSE <<cur>>
    ELSE IF IsWhitespace(Head(s))
         THEN (IF cur = <<>> THEN <<>> ELSE <<cur>>) \o SplitWhitespaceAcc(Tail(s), <<>>)
         ELSE SplitWhitespaceAcc(Tail(s), Append(cur, Head(s)))

\* text.split_whitespace().collect(): maximal runs of non-blank characters
SplitWhitespace(s) == SplitWhitespaceAcc(s, <<>>)

(***************************************************************************)
(* FastCleaner::create_chunks and create_word_based_chunks (cleaner.rs).   *)
(***************************************************************************)
\* cleaner.rs:142-146: the sentence with its full stop restored
SentenceWithPeriod(sentence) ==
    IF EndsWithPeriod(sentence) THEN sentence ELSE Append(sentence, ".")

\* cleaner.rs:149 / 182: appending `piece` would exceed max
WouldExceed(cur, piece, max) == Len(cur) + Len(piece) + 1 > max

\* cleaner.rs:150-152 / 163-165 / 183-185 / 195-197: push the trimmed buffer
\* when it is large enough
Flush(out, cur, min) ==
    IF Len(cur) >= min THEN Append(out, Trim(cur)) ELSE out

\* cleaner.rs:155-158 / 188-191: append with a separating blank
PushPiece(cur, piece) ==
    IF cur # <<>> THEN cur \o <<" ">> \o piece ELSE piece

\* StartChunk with an overlap: the new buffer keeps the old one
StartChunk_Overlap(cur, piece) == PushPiece(cur, piece)

\* cleaner.rs:153 / 186: the buffer starts anew with the piece that did not
\* fit; nothing of the old buffer is carried over (overlap_size is not read)
StartChunk(cur, piece) == piece

\* WholeTextChunks without the min_size test
WholeTextChunks_NoMinTest(t, min) == <<t>>

\* cleaner.rs:128-134: the text fits into one chunk
WholeTextChunks(t, min) ==
    IF Len(t) >= min THEN <<t>> ELSE <<>>

ChunkInit ==
    /\ CallIdle /\ PipeIdle /\ LazyIdle
    /\ text \in StringsUpTo(Alphabet, MaxTextLen)
    /\ max_size \in 1..MaxSize
    /\ min_size \in 1..MaxSize
    /\ min_size <= max_size
    /\ sentences = <<>>
    /\ current_chunk = <<>>
    /\ chunks = <<>>
    /\ ck_pc = "start"

\* cleaner.rs:128-139
CreateChunksEnter ==
    /\ UNCHANGED nonChunkVars
    /\ ck_pc = "start"
    /\ IF Len(text) <= max_size
       THEN /\ chunks' = WholeTextChunks(text, min_size)
            /\ ck_pc' = "done"
            /\ UNCHANGED <<sentences, current_chunk>>
       ELSE /\ sentences' = SplitSentences(text)
            /\ current_chunk' = <<>>
            /\ chunks' = <<>>
            /\ ck_pc' = "sentences"
    /\ UNCHANGED <<text, max_size, min_size>>

\* cleaner.rs:141-160: one iteration of the sentence loop
SentenceStep ==
    /\ UNCHANGED nonChunkVars
    /\ ck_pc = "sentences"
    /\ sentences # <<>>
    /\ LET sentence_with_period == SentenceWithPeriod(Head(sentences))
       IN  IF WouldExceed(current_chunk, sentence_with_period, max_size)
           THEN /\ chunks' = Flush(chunks, current_chunk, min_size)
                /\ current_chunk' = StartChunk(current_chunk, sentence_with_period)
           ELSE /\ current_chunk' = PushPiece(current_chunk, sentence_with_period)
                /\ UNCHANGED chunks
    /\ sentences' = Tail(sentences)
    /\ UNCHANGED <<text, max_size, min_size, ck_pc>>

\* cleaner.rs:162-172: the last buffer, then the word-based fallback or return
SentenceFinish ==
    /\ UNCHANGED nonChunkVars
    /\ ck_pc = "sentences"
    /\ sentences = <<>>
    /\ LET flushed == Flush(chunks, current_chunk, min_size)
       IN  IF flushed = <<>> /\ Len(text) >= min_size
           THEN /\ sentences' = SplitWhitespace(text)
                /\ current_chunk' = <<>>
                /\ chunks' = <<>>
                /\ ck_pc' = "words"
           ELSE /\ chunks' = flushed
                /\ ck_pc' = "done"
                /\ UNCHANGED <<sentences, current_chunk>>
    /\ UNCHANGED <<text, max_size, min_size>>

\* cleaner.rs:181-193: one iteration of the word loop
WordStep ==
    /\ UNCHANGED nonChunkVars
    /\ ck_pc = "words"
    /\ sentences # <<>>
    /\ LET word == Head(sentences)
       IN  IF WouldExceed(current_chunk, word, max_size)
           THEN /\ chunks' = Flush(chunks, current_chunk, min_size)
                /\ current_chunk' = StartChunk(current_chunk, word)
           ELSE /\ current_chunk' = PushPiece(current_chunk, word)
                /\ UNCHANGED chunks
    /\ sentences' = Tail(sentences)
    /\ UNCHANGED <<text, max_size, min_size, ck_pc>>

\* cleaner.rs:195-199: the last buffer of the word loop, and return
WordFinish ==
    /\ UNCHANGED nonChunkVars
    /\ ck_pc = "words"
    /\ sentences = <<>>
    /\ chunks' = Flush(chunks, current_chunk, min_size)
    /\ ck_pc' = "done"
    /\ UNCHANGED <<text, max_size, min_size, sentences, current_chunk>>

ChunkNext ==
    \/ CreateChunksEnter
    \/ SentenceStep
    \/ SentenceFinish
    \/ WordStep
    \/ WordFinish

SpecChunks == ChunkInit /\ [][ChunkNext]_vars

(***************************************************************************)
(* Date strings.  A date string is a sequence of tokens: a token is a run  *)
(* of digits (its width w and its value v), a month or weekday name, an    *)
(* AM/PM mark, a UTC offset, a word, or a single punctuation character.    *)
(***************************************************************************)
\* a run of w digits with value v, e.g. N(2, 8) is "08"
N(w, v) == [k |-> "num", w |-> w, v |-> v]
\* a literal character (or the literal words "Z", "GMT", "null")
L(c) == [k |-> c, w |-> 0, v |-> 0]
\* an abbreviated month name, e.g. Mon(8) is "Aug"
Mon(m) == [k |-> "mon", w |-> 3, v |-> m]
\* a full month name, e.g. Month(8) is "August"
Month(m) == [k |-> "month", w |-> 0, v |-> m]
\* an abbreviated weekday name, e.g. Wd(5) is "Fri"
Wd(i) == [k |-> "wday", w |-> 3, v |-> i]
\* "AM" (0) or "PM" (1)
AmPm(p) == [k |-> "ampm", w |-> 0, v |-> p]
\* a numeric UTC offset of h hours: "+02:00" (colon = 1) or "+0200" (colon = 0)
Off(h, colon) == [k |-> "off", w |-> colon, v |-> h]
\* any other word of running text
Word(i) == [k |-> "word", w |-> 0, v |-> i]

\* Option<String>
None == [some |-> FALSE, val |-> <<>>]
Some(x) == [some |-> TRUE, val |-> x]

RECURSIVE DTrimStart(_)
\* str::trim_start on a token string
DTrimStart(s) == IF s # <<>> /\ Head(s).k = " " THEN DTrimStart(Tail(s)) ELSE s

RECURSIVE DTrimEnd(_)
\* str::trim_end on a token string
DTrimEnd(s) ==
    IF s # <<>> /\ s[Len(s)].k = " " THEN DTrimEnd(SubSeq(s, 1, Len(s) - 1)) ELSE s

\* str::trim on a token string
DTrim(s) == DTrimEnd(DTrimStart(s))

\* chrono: the number of days of month m of year y
DaysInMonth(y, m) ==
    IF m \in {4, 6, 9, 11} THEN 30
    ELSE IF m = 2
         THEN (IF (y % 4 = 0 /\ y % 100 # 0) \/ y % 400 = 0 THEN 29 ELSE 28)
         ELSE 31

\* the fields a chrono parse collects (chrono::format::Parsed); -1 is "not set"
NoFields ==
    [ok |-> TRUE, Y |-> -1, m |-> -1, d |-> -1, H |-> -1, M |-> -1, S |-> -1,
     I |-> -1, p |-> -1, off |-> 0, hasOff |-> FALSE]
\* a failed parse
ParseError == [NoFields EXCEPT !.ok = FALSE]

RECURSIVE ParseItems(_, _, _)
\* chrono::format::parse: match the items of a strftime format against the
\* tokens, one by one, collecting the fields; the whole input must be used
ParseItems(items, toks, f) ==
    IF items = <<>>
    THEN (IF toks = <<>> THEN f ELSE ParseError)
    ELSE IF toks = <<>>
    THEN ParseError
    ELSE LET it == Head(items)
             tk == Head(toks)
             go(g) == ParseItems(Tail(items), Tail(toks), g)
             num(maxw) == tk.k = "num" /\ tk.w <= maxw
         IN  CASE it = "%Y" -> IF num(4) THEN go([f EXCEPT !.Y = tk.v]) ELSE ParseError
               [] it = "%m" -> IF num(2) THEN go([f EXCEPT !.m = tk.v]) ELSE ParseError
               [] it = "%d" -> IF num(2) THEN go([f EXCEPT !.d = tk.v]) ELSE ParseError
               [] it = "%H" -> IF num(2) THEN go([f EXCEPT !.H = tk.v]) ELSE ParseError
               [] it = "%M" -> IF num(2) THEN go([f EXCEPT !.M = tk.v]) ELSE ParseError
               [] it = "%S" -> IF num(2) THEN go([f EXCEPT !.S = tk.v]) ELSE ParseError
               [] it = "%I" -> IF num(2) THEN go([f EXCEPT !.I = tk.v]) ELSE ParseError
               [] it = "%p" -> IF tk.k = "ampm" THEN go([f EXCEPT !.p = tk.v]) ELSE ParseError
               [] it \in {"%b", "%B"} ->
                     IF tk.k \in {"mon", "month"} THEN go([f EXCEPT !.m = tk.v]) ELSE ParseError
               [] it = "%z" ->
                     IF tk.k = "off"
                     THEN go([f EXCEPT !.off = tk.v, !.hasOff = TRUE])
                     ELSE ParseError
               [] OTHER -> IF tk.k = it THEN go(f) ELSE ParseError

\* the hour of a parse: %H, or %I with %p
HourOf(f) ==
    IF f.H # -1 THEN f.H
    ELSE IF f.I \in 1..12 /\ f.p \in {0, 1} THEN (f.I % 12) + 12 * f.p
    ELSE -1

\* NaiveDate::from_ymd_opt succeeds
ValidDate(f) ==
    /\ f.ok
    /\ f.Y >= 0
    /\ f.m \in 1..12
    /\ f.d >= 1 /\ f.d <= DaysInMonth(f.Y, f.m)

\* NaiveTime::from_hms_opt succeeds
ValidTime(f) ==
    /\ f.ok
    /\ HourOf(f) \in 0..23
    /\ f.M \in 0..59
    /\ f.S \in 0..59

\* a date and time of day, [Y, m, d, H, M, S]
DateTimeOf(f) ==
    [Y |-> f.Y, m |-> f.m, d |-> f.d, H |-> HourOf(f), M |-> f.M, S |-> f.S]

\* NaiveDate::and_hms_opt(0, 0, 0)
Midnight(f) == [Y |-> f.Y, m |-> f.m, d |-> f.d, H |-> 0, M |-> 0, S |-> 0]

\* the day before / after the date of dt
PrevDay(dt) ==
    IF dt.d > 1 THEN [dt EXCEPT !.d = dt.d - 1]
    ELSE IF dt.m > 1
         THEN [dt EXCEPT !.m = dt.m - 1, !.d = DaysInMonth(dt.Y, dt.m - 1)]
         ELSE [dt EXCEPT !.Y = dt.Y - 1, !.m = 12, !.d = 31]
NextDay(dt) ==
    IF dt.d < DaysInMonth(dt.Y, dt.m) THEN [dt EXCEPT !.d = dt.d + 1]
    ELSE IF dt.m < 12
         THEN [dt EXCEPT !.m = dt.m + 1, !.d = 1]
         ELSE [dt EXCEPT !.Y = dt.Y + 1, !.m = 1, !.d = 1]

\* dt.with_timezone(&Utc) for a local time dt at an offset of off hours
WithTimezoneUtc(dt, off) ==
    LET h == dt.H - off
    IN  IF h < 0 THEN [PrevDay(dt) EXCEPT !.H = h + 24]
        ELSE IF h > 23 THEN [NextDay(dt) EXCEPT !.H = h - 24]
        ELSE [dt EXCEPT !.H = h]

\* utc_dt.format("%Y-%m-%dT%H:%M:%SZ").to_string()
FormatCanonical(dt) ==
    <<N(4, dt.Y), L("-"), N(2, dt.m), L("-"), N(2, dt.d), L("T"),
      N(2, dt.H), L(":"), N(2, dt.M), L(":"), N(2, dt.S), L("Z")>>

\* dt.to_utc().to_rfc3339(): the offset is written "+00:00"
FormatRfc3339(dt) ==
    <<N(4, dt.Y), L("-"), N(2, dt.m), L("-"), N(2, dt.d), L("T"),
      N(2, dt.H), L(":"), N(2, dt.M), L(":"), N(2, dt.S), Off(0, 1)>>

\* the shape YYYY-MM-DDTHH:MM:SSZ
IsCanonical(s) ==
    /\ Len(s) = 12
    /\ \A i \in {1, 3, 5, 7, 9, 11} : s[i].k = "num"
    /\ s[1].w = 4
    /\ \A i \in {3, 5, 7, 9, 11} : s[i].w = 2
    /\ s[2].k = "-" /\ s[4].k = "-" /\ s[6].k = "T"
    /\ s[8].k = ":" /\ s[10].k = ":" /\ s[12].k = "Z"

(***************************************************************************)
(* The chrono parsers the normalizers call, and their format lists.        *)
(***************************************************************************)
\* the first present value of a sequence of Option values, or None
RECURSIVE FirstSome(_)
FirstSome(opts) ==
    IF opts = <<>> THEN None
    ELSE IF Head(opts).some THEN Head(opts) ELSE FirstSome(Tail(opts))

\* DateTime::parse_from_rfc3339 and the conversion to UTC:
\* YYYY-MM-DDTHH:MM:SS[.fraction] followed by Z or +hh:mm, every field at its
\* full width; [ok, dt], the fraction dropped as the callers' formats drop it
Rfc3339Utc(str) ==
    LET s == IF Len(str) = 14 /\ str[12].k = "." /\ str[13].k = "num"
             THEN SubSeq(str, 1, 11) \o <<str[14]>>
             ELSE str
        f == ParseItems(<<"%Y", "-", "%m", "-", "%d", "T", "%H", ":", "%M", ":", "%S">>,
                        SubSeq(s, 1, 11), NoFields)
    IN  IF /\ Len(s) = 12
           /\ s[1].w = 4
           /\ \A i \in {3, 5, 7, 9, 11} : s[i].w = 2
           /\ (s[12].k = "Z" \/ (s[12].k = "off" /\ s[12].w = 1))
           /\ ValidDate(f) /\ ValidTime(f)
        THEN [ok |-> TRUE, dt |-> WithTimezoneUtc(DateTimeOf(f), s[12].v)]
        ELSE [ok |-> FALSE, dt |-> Midnight(NoFields)]

\* cleaner.rs:354-358: RFC 3339, written in the canonical shape
Rfc3339Stage(s) ==
    IF Rfc3339Utc(s).ok THEN Some(FormatCanonical(Rfc3339Utc(s).dt)) ELSE None

\* DateTime::parse_from_rfc2822: [Fri, ]22 Aug 2025 15:05:20 GMT|+0000
Rfc2822Stage(s) ==
    LET body == IF Len(s) >= 3 /\ s[1].k = "wday" /\ s[2].k = "," /\ s[3].k = " "
                THEN SubSeq(s, 4, Len(s))
                ELSE s
        f == ParseItems(<<"%d", " ", "%b", " ", "%Y", " ", "%H", ":", "%M", ":", "%S", " ">>,
                        SubSeq(body, 1, 12), NoFields)
    IN  IF /\ Len(body) = 13
           /\ body[3].k = "mon"
           /\ body[5].w = 4
           /\ (body[13].k = "GMT" \/ (body[13].k = "off" /\ body[13].w = 0))
           /\ ValidDate(f) /\ ValidTime(f)
        THEN Some(FormatCanonical(WithTimezoneUtc(DateTimeOf(f), body[13].v)))
        ELSE None

\* pieces of the strftime formats of the source
HMS == <<"%H", ":", "%M", ":", "%S">>
IMSp == <<"%I", ":", "%M", ":", "%S", " ", "%p">>
Sep3(a, sep, b, c) == <<a, sep, b, sep, c>>
NameDayYear(name) == <<name, " ", "%d", ",", " ", "%Y">>
DayNameYear(name) == <<"%d", " ", name, " ", "%Y">>

\* cleaner.rs:367-372 (extractor.rs:1145-1150)
web_formats_with_tz ==
    << Sep3("%Y", "-", "%m", "%d") \o <<"T">> \o HMS \o <<"%z">>,
       Sep3("%Y", "-", "%m", "%d") \o <<" ">> \o HMS \o <<" ", "%z">>,
       DayNameYear("%b") \o <<" ">> \o HMS \o <<" ", "%z">>,
       NameDayYear("%b") \o <<" ">> \o HMS \o <<" ", "%z">> >>

\* the date parts of cleaner.rs:382-395 (extractor.rs:1160-1173)
naive_date_parts ==
    << <<Sep3("%Y", "-", "%m", "%d"), "T">>,
       <<Sep3("%Y", "-", "%m", "%d"), " ">>,
       <<Sep3("%m", "/", "%d", "%Y"), " ">>,
       <<Sep3("%d", "/", "%m", "%Y"), " ">>,
       <<Sep3("%m", "-", "%d", "%Y"), " ">>,
       <<Sep3("%d", "-", "%m", "%Y"), " ">>,
       <<NameDayYear("%b"), " ">>,
       <<DayNameYear("%b"), " ">>,
       <<NameDayYear("%B"), " ">>,
       <<DayNameYear("%B"), " ">>,
       <<Sep3("%Y", "/", "%m", "%d"), " ">>,
       <<Sep3("%d", ".", "%m", "%Y"), " ">> >>

\* cleaner.rs:382-395 (extractor.rs:1160-1173)
naive_formats ==
    [i \in 1..Len(naive_date_parts) |->
        naive_date_parts[i][1] \o <<naive_date_parts[i][2]>> \o HMS]

\* cleaner.rs:405-414 (extractor.rs:1183-1192)
am_pm_formats ==
    << Sep3("%m", "/", "%d", "%Y") \o <<",", " ">> \o IMSp,
       Sep3("%m", "/", "%d", "%Y") \o <<" ">> \o IMSp,
       Sep3("%d", "/", "%m", "%Y") \o <<",", " ">> \o IMSp,
       Sep3("%d", "/", "%m", "%Y") \o <<" ">> \o IMSp,
       Sep3("%m", "-", "%d", "%Y") \o <<",", " ">> \o IMSp,
       Sep3("%m", "-", "%d", "%Y") \o <<" ">> \o IMSp,
       NameDayYear("%b") \o <<",", " ">> \o IMSp,
       NameDayYear("%B") \o <<",", " ">> \o IMSp >>

\* cleaner.rs:424-437 (extractor.rs:1202-1215)
date_only_formats ==
    << Sep3("%Y", "-", "%m", "%d"),
       Sep3("%m", "/", "%d", "%Y"),
       Sep3("%d", "/", "%m", "%Y"),
       Sep3("%m", "-", "%d", "%Y"),
       Sep3("%d", "-", "%m", "%Y"),
       NameDayYear("%b"),
       DayNameYear("%b"),
       NameDayYear("%B"),
       DayNameYear("%B"),
       Sep3("%Y", "/", "%m", "%d"),
       Sep3("%d", ".", "%m", "%Y"),
       Sep3("%Y", ".", "%m", "%d") >>

\* what a parse must have found: DateTime::parse_from_str needs a date, a time
\* and an offset, NaiveDateTime::parse_from_str a date and a time,
\* NaiveDate::parse_from_str a date
Valid(kind, f) ==
    CASE kind = "DateTime" -> ValidDate(f) /\ ValidTime(f) /\ f.hasOff
      [] kind = "NaiveDateTime" -> ValidDate(f) /\ ValidTime(f)
      [] kind = "NaiveDate" -> ValidDate(f)

\* the fields of the first format of the list that parses s, or ParseError
FirstParse(s, formats, kind) ==
    LET hits == {i \in 1..Len(formats) : Valid(kind, ParseItems(formats[i], s, NoFields))}
    IN  IF hits = {} THEN ParseError
        ELSE ParseItems(formats[CHOOSE i \in hits : \A j \in hits : i <= j], s, NoFields)

\* cleaner.rs:374-379: formats with an offset, converted to UTC
ZonedStage(s) ==
    LET f == FirstParse(s, web_formats_with_tz, "DateTime")
    IN  IF f.ok THEN Some(FormatCanonical(WithTimezoneUtc(DateTimeOf(f), f.off))) ELSE None

\* cleaner.rs:397-402: naive date-times, taken as UTC
NaiveStage(s) ==
    LET f == FirstParse(s, naive_formats, "NaiveDateTime")
    IN  IF f.ok THEN Some(FormatCanonical(DateTimeOf(f))) ELSE None

\* cleaner.rs:416-421: 12-hour date-times, taken as UTC
AmPmStage(s) ==
    LET f == FirstParse(s, am_pm_formats, "NaiveDateTime")
    IN  IF f.ok THEN Some(FormatCanonical(DateTimeOf(f))) ELSE None

\* cleaner.rs:439-446: dates without a time, at 00:00:00 UTC
DateOnlyStage(s) ==
    LET f == FirstParse(s, date_only_formats, "NaiveDate")
    IN  IF f.ok THEN Some(FormatCanonical(Midnight(f))) ELSE None

\* the six parse stages both normalizers share, in their order
\* (cleaner.rs:354-446, extractor.rs:1132-1224)
ParseStages(trimmed) ==
    FirstSome(<< Rfc3339Stage(trimmed),
                 Rfc2822Stage(trimmed),
                 ZonedStage(trimmed),
                 NaiveStage(trimmed),
                 AmPmStage(trimmed),
                 DateOnlyStage(trimmed) >>)

\* FastCleaner::normalize_date (cleaner.rs:344-450)
normalize_date_Keep(date_str) == Some(date_str)
normalize_date(date_str) ==
    IF date_str = <<>> THEN None
    ELSE LET trimmed == DTrim(date_str)
         IN  IF trimmed = <<>> \/ trimmed = <<L("null")>>
             THEN None
             ELSE ParseStages(trimmed)

(***************************************************************************)
(* Regular expressions over token strings.  A pattern is a sequence of     *)
(* elements; each element matches one token, except an optional literal    *)
(* (zero or one token) and a run (one or more tokens).  A pattern is not   *)
(* anchored, so its first digit element may match the end of a longer run  *)
(* of digits and its last digit element the start of one.  Words (Word)    *)
(* stand for text that contains no month or weekday name.                  *)
(***************************************************************************)
D(lo, hi) == [t |-> "d", c |-> "", lo |-> lo, hi |-> hi]
Lit(c) == [t |-> "lit", c |-> c, lo |-> 0, hi |-> 0]
Opt(c) == [t |-> "opt", c |-> c, lo |-> 0, hi |-> 0]
El(t) == [t |-> t, c |-> "", lo |-> 0, hi |-> 0]

\* the token is made of \w characters only
IsWordTok(tk) ==
    tk.k \in {"num", "mon", "month", "wday", "ampm", "word", "Z", "T", "GMT", "UTC", "null"}

\* the number of characters of a token, where the patterns depend on it
CharLen(tk) ==
    IF tk.k = "num" THEN tk.w
    ELSE IF tk.k \in {"mon", "wday", "GMT", "UTC"} THEN 3
    ELSE IF tk.k \in {"Z", "T"} THEN 1
    ELSE IF tk.k = "ampm" THEN 2
    ELSE 4

\* element e matches token tk; first / last: e is the first / last element
Fits(e, tk, first, last) ==
    CASE e.t = "d" -> tk.k = "num" /\ tk.w >= e.lo /\ (tk.w <= e.hi \/ first \/ last)
      [] e.t = "lit" -> tk.k = e.c
      [] e.t = "ws" -> tk.k = " "
      [] e.t = "mon" -> tk.k \in {"mon", "month"}
      [] e.t = "mon3" -> tk.k = "mon"
      [] e.t = "wday" -> tk.k = "wday"
      [] e.t = "zone" -> tk.k \in {"Z", "off"}
      [] e.t = "zone2822" -> tk.k \in {"GMT", "UTC"} \/ (tk.k = "off" /\ tk.w = 0)
      [] e.t = "ampm" -> tk.k = "ampm"
      [] e.t = "w+" -> IsWordTok(tk)
      [] e.t = "w3" -> IsWordTok(tk) /\ CharLen(tk) >= 3 /\ (CharLen(tk) = 3 \/ first \/ last)
      [] OTHER -> FALSE

RECURSIVE RunEnd(_, _, _)
\* the last position of the run of tokens matching e that starts at p
RunEnd(e, toks, p) ==
    IF p < Len(toks) /\ Fits(e, toks[p + 1], FALSE, FALSE) THEN RunEnd(e, toks, p + 1) ELSE p

RECURSIVE MatchElems(_, _, _, _)
\* match elems[j..] against toks[p..]: the position of the last token used, or -1
MatchElems(elems, j, toks, p) ==
    IF j > Len(elems) THEN p - 1
    ELSE LET e == elems[j]
             here == p <= Len(toks) /\ Fits(e, toks[p], j = 1, j = Len(elems))
         IN  IF e.t = "opt"
             THEN (IF p <= Len(toks) /\ toks[p].k = e.c
                   THEN MatchElems(elems, j + 1, toks, p + 1)
                   ELSE MatchElems(elems, j + 1, toks, p))
             ELSE IF ~here THEN -1
             ELSE IF e.t \in {"ws", "w+"}
                  THEN MatchElems(elems, j + 1, toks, RunEnd(e, toks, p) + 1)
                  ELSE MatchElems(elems, j + 1, toks, p + 1)

\* Regex::is_match
is_match(elems, toks) == \E i \in 1..Len(toks) : MatchElems(elems, 1, toks, i) # -1

RECURSIVE Pow10(_)
Pow10(n) == IF n = 0 THEN 1 ELSE 10 * Pow10(n - 1)

\* the part of the first / last token a digit element takes
TakeSuffix(tk, e) ==
    IF tk.k = "num" /\ e.t = "d" /\ tk.w > e.hi THEN N(e.hi, tk.v % Pow10(e.hi)) ELSE tk
TakePrefix(tk, e) ==
    IF tk.k = "num" /\ e.t = "d" /\ tk.w > e.hi THEN N(e.hi, tk.v \div Pow10(tk.w - e.hi)) ELSE tk

\* Regex::find(text).as_str() for a pattern given as its alternatives, the
\* greedy one first: the leftmost match, and there the first alternative
find(variants, toks) ==
    LET starts == {i \in 1..Len(toks) :
                      \E n \in 1..Len(variants) : MatchElems(variants[n], 1, toks, i) # -1}
    IN  IF starts = {} THEN None
        ELSE LET i == CHOOSE x \in starts : \A y \in starts : x <= y
                 n == CHOOSE x \in 1..Len(variants) :
                          /\ MatchElems(variants[x], 1, toks, i) # -1
                          /\ \A y \in 1..(x - 1) : MatchElems(variants[y], 1, toks, i) = -1
                 v == variants[n]
                 e == MatchElems(v, 1, toks, i)
                 m == SubSeq(toks, i, e)
             IN  Some([q \in 1..Len(m) |->
                         IF q = 1 THEN TakeSuffix(m[q], v[1])
                         ELSE IF q = Len(m) THEN TakePrefix(m[q], v[Len(v)])
                         ELSE m[q]])

(***************************************************************************)
(* FastExtractor's date functions (extractor.rs).                          *)
(***************************************************************************)
\* pieces of the patterns of extract_date_from_text
TimeTail == <<Opt(","), El("ws"), D(1, 2), Lit(":"), D(2, 2), Lit(":"), D(2, 2)>>
AmPmTail == <<El("ws"), El("ampm")>>
WithTails(base) == <<base \o TimeTail \o AmPmTail, base \o TimeTail, base>>
IsoDate == <<D(4, 4), Lit("-"), D(2, 2), Lit("-"), D(2, 2)>>
IsoDateTime == IsoDate \o <<Lit("T"), D(2, 2), Lit(":"), D(2, 2), Lit(":"), D(2, 2)>>
Millis == <<Lit("."), D(3, 3)>>

\* the patterns of extract_date_from_text (extractor.rs:1238-1256), in order
extract_patterns ==
    << << IsoDateTime \o Millis \o <<El("zone")>>, IsoDateTime \o Millis,
          IsoDateTime \o <<El("zone")>>, IsoDateTime >>,
       << IsoDate >>,
       WithTails(<<D(1, 2), Lit("/"), D(1, 2), Lit("/"), D(4, 4)>>),
       WithTails(<<D(1, 2), Lit("-"), D(1, 2), Lit("-"), D(4, 4)>>),
       << <<D(1, 2), Lit("."), D(1, 2), Lit("."), D(4, 4)>> \o TimeTail,
          <<D(1, 2), Lit("."), D(1, 2), Lit("."), D(4, 4)>> >>,
       WithTails(<<El("mon"), El("ws"), D(1, 2), Opt(","), El("ws"), D(4, 4)>>),
       WithTails(<<D(1, 2), El("ws"), El("mon"), El("ws"), D(4, 4)>>),
       << <<El("wday"), Opt(","), El("ws"), D(1, 2), El("ws"), El("mon3"), El("ws"),
            D(4, 4), El("ws"), D(2, 2), Lit(":"), D(2, 2), Lit(":"), D(2, 2),
            El("ws"), El("zone2822")>> >> >>

\* FastExtractor::extract_date_from_text (extractor.rs:1236-1267)
extract_date_from_text(toks) ==
    FirstSome([n \in 1..Len(extract_patterns) |-> find(extract_patterns[n], toks)])

\* the number of nested calls of parse_date_string the stack has room for
MaxStack == 3

\* the outcome of a call: it returned an Option<String>, or the stack overflowed
Returned(opt) == [overflow |-> FALSE, ret |-> opt]
StackOverflow == [overflow |-> TRUE, ret |-> None]

RECURSIVE parse_date_string(_, _)
\* extractor.rs:1226-1232: parse again what extract_date_from_text found
ParseExtracted(extracted, depth) ==
    IF extracted.some THEN parse_date_string(extracted.val, depth + 1) ELSE Returned(None)

\* extractor.rs:1132-1232: the result of the parse stages, or else of the
\* extraction
StagedOrExtracted(staged, trimmed, depth) ==
    IF staged.some THEN Returned(staged)
    ELSE ParseExtracted(extract_date_from_text(trimmed), depth)

\* FastExtractor::parse_date_string (extractor.rs:1120-1233) called at a
\* nesting depth
parse_date_string(date_str, depth) ==
    IF depth > MaxStack THEN StackOverflow
    ELSE IF date_str = <<>> \/ DTrim(date_str) = <<>> THEN Returned(None)
    ELSE StagedOrExtracted(ParseStages(DTrim(date_str)), DTrim(date_str), depth)

\* the labels clean_date_string removes
DatePrefixes ==
    {"Published:", "Last modified:", "Updated:", "Date:", "Created:", "Modified:"}

\* Option::unwrap_or_default on the outcome of a call: the empty String for None
unwrap_or_default(r) ==
    IF r.overflow \/ r.ret.some THEN r ELSE Returned(Some(<<>>))

\* FastExtractor::clean_date_string (extractor.rs:1270-1289); the empty
\* String is an absent value of the result
clean_date_string(date_str) ==
    IF date_str = <<>> THEN Returned(Some(<<>>))
    ELSE unwrap_or_default(
             parse_date_string(
                 DTrim(SelectSeq(DTrim(date_str), LAMBDA tk : tk.k \notin DatePrefixes)), 1))

(***************************************************************************)
(* OptimizedExtractor's date function (extractor/optimized.rs).            *)
(***************************************************************************)
\* OptimizedExtractor::new, date_patterns (optimized.rs:71-87)
date_patterns ==
    << IsoDate,
       <<D(2, 2), Lit("/"), D(2, 2), Lit("/"), D(4, 4)>>,
       <<D(2, 2), Lit("-"), D(2, 2), Lit("-"), D(4, 4)>>,
       <<D(2, 2), Lit("."), D(2, 2), Lit("."), D(4, 4)>>,
       <<D(4, 4), Lit("/"), D(2, 2), Lit("/"), D(2, 2)>>,
       <<D(4, 4), Lit("."), D(2, 2), Lit("."), D(2, 2)>>,
       <<D(2, 2), Lit(" "), El("w+"), Lit(" "), D(4, 4)>>,
       <<El("w+"), Lit(" "), D(2, 2), Lit(","), Lit(" "), D(4, 4)>>,
       <<D(1, 2), Lit("/"), D(1, 2), Lit("/"), D(2, 2)>>,
       <<D(1, 2), Lit("-"), D(1, 2), Lit("-"), D(2, 2)>>,
       <<D(1, 2), Lit(" "), El("w3"), Lit(" "), D(4, 4)>>,
       <<D(1, 2), Lit("-"), El("w3"), Lit("-"), D(4, 4)>>,
       <<El("w3"), Lit(" "), D(1, 2), Lit(","), Lit(" "), D(4, 4)>>,
       <<D(8, 8)>>,
       <<D(2, 2), Opt(" "), Lit("/"), Opt(" "), D(2, 2), Opt(" "), Lit("/"), Opt(" "), D(4, 4)>> >>

\* OptimizedExtractor::parse_date_string (optimized.rs:925-940)
optimized_parse_date_string(date_str) ==
    LET rfc == Rfc3339Utc(date_str)
    IN  IF rfc.ok THEN Some(FormatRfc3339(rfc.dt))
        ELSE IF \E n \in 1..Len(date_patterns) : is_match(date_patterns[n], date_str)
             THEN Some(date_str)
             ELSE None

(***************************************************************************)
(* The date functions, each called on one input.                           *)
(***************************************************************************)
\* the dates the inputs are written from: <<year, month, day>>; the last is
\* no date of the calendar
SampleDates == {<<2025, 8, 22>>, <<2025, 12, 31>>, <<2025, 13, 45>>}
\* the time of day of the inputs: 23:05:20, 11:05:20 PM
SampleHMS == <<N(2, 23), L(":"), N(2, 5), L(":"), N(2, 20)>>
SampleIMSp == <<N(2, 11), L(":"), N(2, 5), L(":"), N(2, 20), L(" "), AmPm(1)>>

\* the ways the inputs write a date
DateForms(dt) ==
    LET Y == N(4, dt[1])
        m == N(2, dt[2])
        d == N(2, dt[3])
        sep(a, c, b, e) == <<a, L(c), b, L(c), e>>
    IN  {sep(Y, "-", m, d), sep(m, "/", d, Y), sep(d, "/", m, Y), sep(m, "-", d, Y),
         sep(d, "-", m, Y), sep(Y, "/", m, d), sep(d, ".", m, Y), sep(Y, ".", m, d)}
        \cup (IF dt[2] \in 1..12
              THEN {<<Mon(dt[2]), L(" "), d, L(","), L(" "), Y>>,
                    <<d, L(" "), Mon(dt[2]), L(" "), Y>>,
                    <<Month(dt[2]), L(" "), d, L(","), L(" "), Y>>,
                    <<d, L(" "), Month(dt[2]), L(" "), Y>>}
              ELSE {})

\* the ways the inputs continue after the date
TimeForms ==
    {<<>>,
     <<L("T")>> \o SampleHMS,
     <<L("T")>> \o SampleHMS \o <<L("Z")>>,
     <<L("T")>> \o SampleHMS \o <<Off(0, 1)>>,
     <<L("T")>> \o SampleHMS \o <<Off(2, 1)>>,
     <<L("T")>> \o SampleHMS \o <<Off(-5, 1)>>,
     <<L("T")>> \o SampleHMS \o <<Off(-5, 0)>>,
     <<L("T")>> \o SampleHMS \o <<L("."), N(3, 123), L("Z")>>,
     <<L(" ")>> \o SampleHMS,
     <<L(" ")>> \o SampleHMS \o <<L(" "), Off(2, 0)>>,
     <<L(","), L(" ")>> \o SampleIMSp,
     <<L(" ")>> \o SampleIMSp}

\* inputs in the RFC 2822 style
Rfc2822Inputs ==
    {<<Wd(5), L(","), L(" "), N(2, 22), L(" "), Mon(8), L(" "), N(4, 2025), L(" ")>>
         \o SampleHMS \o <<L(" "), z>> : z \in {L("GMT"), Off(0, 0), Off(-5, 0), L("UTC")}}
    \cup {<<N(2, 22), L(" "), Mon(8), L(" "), N(4, 2025), L(" ")>> \o SampleHMS \o <<L(" "), L("GMT")>>}

\* inputs that are no date, or a date inside other text
OtherInputs ==
    {<<>>, <<L(" "), L(" ")>>, <<L("null")>>, <<Word(1)>>, <<Word(1), L(" "), Word(2)>>,
     <<L(" "), N(4, 2025), L("-"), N(2, 8), L("-"), N(2, 22), L(" ")>>,
     <<L("Published:"), L(" "), N(4, 2025), L("-"), N(2, 8), L("-"), N(2, 22)>>,
     <<Word(1), L(" "), N(4, 2025), L("-"), N(2, 8), L("-"), N(2, 22), L(" "), Word(2)>>,
     <<Word(1), L(" "), N(4, 2025), L("-"), N(2, 2), L("-"), N(2, 30)>>,
     <<N(5, 12025), L("-"), N(2, 8), L("-"), N(2, 22)>>,
     <<N(8, 20250822)>>,
     <<N(1, 8), L("/"), N(2, 22), L("/"), N(2, 25)>>,
     <<N(1, 8), L("/"), N(1, 2), L("/"), N(4, 2025)>>,
     <<N(4, 2024), L("-"), N(2, 2), L("-"), N(2, 29)>>,
     <<N(4, 2025), L("-"), N(2, 2), L("-"), N(2, 29)>>}

DateInputs ==
    {d \o t : d \in UNION {DateForms(dt) : dt \in SampleDates}, t \in TimeForms}
    \cup Rfc2822Inputs \cup OtherInputs

DateFunctions ==
    {"normalize_date", "optimized_parse_date_string", "parse_date_string", "clean_date_string"}

DateInit ==
    /\ ChunkIdle /\ PipeIdle /\ LazyIdle
    /\ call_fn \in DateFunctions
    /\ call_arg \in DateInputs
    /\ call_out = Returned(None)
    /\ call_pc = "call"

\* a call of FastCleaner::normalize_date (cleaner.rs:344-450)
NormalizeDate ==
    /\ call_pc = "call" /\ call_fn = "normalize_date"
    /\ call_out' = Returned(normalize_date(call_arg))
    /\ call_pc' = "returned"
    /\ UNCHANGED <<call_fn, call_arg>>
    /\ UNCHANGED nonCallVars

\* a call of OptimizedExtractor::parse_date_string (optimized.rs:925-940)
OptimizedParseDateString ==
    /\ call_pc = "call" /\ call_fn = "optimized_parse_date_string"
    /\ call_out' = Returned(optimized_parse_date_string(call_arg))
    /\ call_pc' = "returned"
    /\ UNCHANGED <<call_fn, call_arg>>
    /\ UNCHANGED nonCallVars

\* a call of FastExtractor::parse_date_string (extractor.rs:1120-1233): it
\* returns, or the recursion of line 1228 exhausts the stack
ParseDateString ==
    /\ call_pc = "call" /\ call_fn = "parse_date_string"
    /\ call_out' = parse_date_string(call_arg, 1)
    /\ call_pc' = IF call_out'.overflow THEN "aborted" ELSE "returned"
    /\ UNCHANGED <<call_fn, call_arg>>
    /\ UNCHANGED nonCallVars

\* a call of FastExtractor::clean_date_string (extractor.rs:1270-1289)
CleanDateString ==
    /\ call_pc = "call" /\ call_fn = "clean_date_string"
    /\ call_out' = clean_date_string(call_arg)
    /\ call_pc' = IF call_out'.overflow THEN "aborted" ELSE "returned"
    /\ UNCHANGED <<call_fn, call_arg>>
    /\ UNCHANGED nonCallVars

DateNext ==
    \/ NormalizeDate
    \/ OptimizedParseDateString
    \/ ParseDateString
    \/ CleanDateString

SpecDates == DateInit /\ [][DateNext]_vars

(***************************************************************************)
(* The pipeline of lib.rs: process_html / internal_process_html, with      *)
(* FastExtractor::extract_content.  A page is described by what the        *)
(* external HTML parser and the whatlang detector find in it.  Its body    *)
(* text is a run of five-letter words and HTML entities ("&amp;")          *)
(* separated by single blanks, without full stops: [words, entities].      *)
(* Scores are in thousandths.                                              *)
(***************************************************************************)
\* one point of a score, in thousandths
ScoreUnit == 1000

\* String::new()
EmptyText == [words |-> 0, entities |-> 0]
\* str::len of a body text
ByteLen(t) ==
    IF t.words + t.entities = 0 THEN 0 ELSE 6 * (t.words + t.entities) - 1
\* str::split_whitespace().count()
WordCount(t) == t.words + t.entities
\* FastCleaner::clean_text (cleaner.rs:61-94): entities become blanks, runs of
\* blanks one blank, and the ends are trimmed
clean_text_body(t) == [words |-> t.words, entities |-> 0]
\* FastCleaner::clean_description (cleaner.rs:97-124) on a description of n
\* characters without entities, blanks or full stops
clean_description_len(n) == IF n > 300 THEN 300 ELSE n

\* FastCleaner::create_chunks (cleaner.rs:127-173) on a cleaned body text: it
\* holds no ". ", so it is one sentence; a chunk is [words, stop], stop
\* telling that line 145 added a full stop
create_chunks(t, max, min) ==
    IF ByteLen(t) <= max
    THEN (IF ByteLen(t) >= min THEN <<[words |-> t.words, stop |-> FALSE]>> ELSE <<>>)
    ELSE (IF 0 >= min THEN <<[words |-> 0, stop |-> FALSE]>> ELSE <<>>)
         \o (IF ByteLen(t) + 1 >= min THEN <<[words |-> t.words, stop |-> TRUE]>> ELSE <<>>)

\* FastLanguageDetector::detect_language(html_content, url)
\* (language_detector.rs:32-54) on the whole page
detect_language_html(pg) ==
    IF pg.blank THEN None
    ELSE IF pg.url_lang = "en" THEN Some("en")
    ELSE IF pg.lang_attr # "" THEN Some(pg.lang_attr)
    ELSE IF pg.html_detect # "" THEN Some(pg.html_detect)
    ELSE None

\* FastLanguageDetector::is_english(main_content, url)
\* (language_detector.rs:57-61, 32-54) on a body text, which holds no "lang="
is_english(t, pg) ==
    IF t = EmptyText THEN FALSE
    ELSE IF pg.url_lang = "en" THEN TRUE
    ELSE pg.content_detect = "en"

\* FastExtractor::calculate_quality_score (extractor.rs:1005-1031)
calculate_quality_score(word_count, headings, tech) ==
    LET score == 5 * ScoreUnit
                 + (IF word_count > 300 THEN ScoreUnit ELSE 0)
                 + (IF word_count > 1000 THEN ScoreUnit ELSE 0)
                 + (IF headings # 0 THEN ScoreUnit ELSE 0)
                 + (IF headings > 3 THEN ScoreUnit \div 2 ELSE 0)
                 + (IF tech THEN ScoreUnit ELSE 0)
    IN  IF score < 10 * ScoreUnit THEN score ELSE 10 * ScoreUnit

\* calculate_content_quality (lib.rs:215-248)
calculate_content_quality_Unclamped(d) ==
    (IF d.word_count > 100 THEN d.word_count ELSE 0)
    + (IF d.headings # 0 THEN ScoreUnit ELSE 0)
    + (IF d.headings > 2 THEN ScoreUnit \div 2 ELSE 0)
    + (IF d.images # 0 THEN ScoreUnit \div 2 ELSE 0)
    + (IF d.description # 0 /\ d.description > 50 THEN ScoreUnit ELSE 0)
    + (IF d.is_technical_content THEN ScoreUnit \div 2 ELSE 0)
calculate_content_quality(d) ==
    LET length == IF d.word_count > 100
                  THEN (IF d.word_count < 3 * ScoreUnit THEN d.word_count ELSE 3 * ScoreUnit)
                  ELSE 0
        score == length
                 + (IF d.headings # 0 THEN ScoreUnit ELSE 0)
                 + (IF d.headings > 2 THEN ScoreUnit \div 2 ELSE 0)
                 + (IF d.images # 0 THEN ScoreUnit \div 2 ELSE 0)
                 + (IF d.description # 0 /\ d.description > 50 THEN ScoreUnit ELSE 0)
                 + (IF d.is_technical_content THEN ScoreUnit \div 2 ELSE 0)
    IN  IF score < 10 * ScoreUnit THEN score ELSE 10 * ScoreUnit

\* detect_technical_content (lib.rs:251-269) on a text with technical_count
\* of the technical keywords
detect_technical_content(t, technical_count) ==
    technical_count >= 3 \/ (ByteLen(t) > 0 /\ technical_count * 10000 > ByteLen(t))

\* a keyword as a source writes it: a letter (stem) repeated len times, caps
\* when written with capitals, pad when written with blanks around it
Kw(stem, len, caps, pad) == [stem |-> stem, len |-> len, caps |-> caps, pad |-> pad]
\* k.trim().to_lowercase()
TrimLower(k) == [k EXCEPT !.caps = FALSE, !.pad = FALSE]
\* a == b ignoring case
EqualIgnoringCase(a, b) == a.stem = b.stem /\ a.len = b.len /\ a.pad = b.pad
\* a <= b for lowercase strings without blanks
KwLeq(a, b) == a.stem < b.stem \/ (a.stem = b.stem /\ a.len <= b.len)

RECURSIVE SortDedup(_)
\* Vec::sort then Vec::dedup, on the set of the entries
SortDedup(S) ==
    IF S = {} THEN <<>>
    ELSE LET least == CHOOSE x \in S : \A y \in S : KwLeq(x, y)
         IN  <<least>> \o SortDedup(S \ {least})

\* Vec::truncate / Iterator::take
Truncate(s, n) == IF Len(s) > n THEN SubSeq(s, 1, n) ELSE s
\* the entries of a Vec
Entries(s) == {s[i] : i \in 1..Len(s)}

\* the keywords arm of extract_meta_tags (extractor.rs:209-226) on the entries
\* of a keywords meta tag
meta_keywords(keywords, listed) ==
    LET accepted == SelectSeq([i \in 1..Len(listed) |-> TrimLower(listed[i])],
                              LAMBDA k : k.len # 0 /\ k.len >= 3 /\ k.len <= 30)
    IN  Truncate(SortDedup(Entries(keywords \o accepted)), 15)

RECURSIVE json_ld_keywords(_, _)
\* the keywords of extract_from_json_ld (extractor.rs:1349-1367) on the
\* entries of a JSON-LD keywords value
json_ld_keywords(keywords, listed) ==
    IF listed = <<>> THEN keywords
    ELSE LET keyword == TrimLower(Head(listed))
         IN  json_ld_keywords(
                 IF keyword.len # 0 /\ keyword.len >= 3 /\ keyword \notin Entries(keywords)
                 THEN Append(keywords, keyword)
                 ELSE keywords,
                 Tail(listed))

\* FastExtractor::extract_keywords_from_content (extractor.rs:1071-1119) on
\* the words of the lowercased body text with their counts, in the order
\* sort_by leaves them
extract_keywords_from_content(word_freq, max_keywords) ==
    LET filtered == SelectSeq(word_freq, LAMBDA e : e.word.len >= 4)
        taken == SelectSeq(Truncate(filtered, max_keywords), LAMBDA e : e.count >= 2)
    IN  [i \in 1..Len(taken) |-> taken[i].word]

\* the most keywords a source of the pages lists
MaxListed == 16

\* the categories arm of extract_meta_tags (extractor.rs:186-206) on the
\* entries of a category meta tag
meta_categories(categories, listed) ==
    LET accepted == SelectSeq([i \in 1..Len(listed) |-> TrimLower(listed[i])],
                              LAMBDA c : c.len # 0 /\ c.len >= 3 /\ c.len <= 30)
    IN  Truncate(SortDedup(Entries(categories \o accepted)), 10)

\* genre and articleSection of extract_from_json_ld (extractor.rs:1336-1346)
push_lowercase(categories, value) ==
    IF value.some /\ [value.val EXCEPT !.caps = FALSE] \notin Entries(categories)
    THEN Append(categories, [value.val EXCEPT !.caps = FALSE])
    ELSE categories

\* the canonical url of extract_links (extractor.rs:616-629): base_url has no
\* slash at its end and a relative href none at its start
canonical_of_link(href, base_url) ==
    IF href.absolute THEN href.s ELSE base_url \o "/" \o href.s

\* the keywords meta tags of the pages: none; a list with entries equal
\* ignoring case, too short, too long, at both limits and empty; MaxListed
\* different entries
MetaKeywordLists ==
    {<<>>,
     <<Kw(1, 4, TRUE, TRUE), Kw(1, 4, FALSE, FALSE), Kw(2, 2, FALSE, TRUE), Kw(3, 31, FALSE, FALSE),
       Kw(4, 30, FALSE, FALSE), Kw(5, 3, FALSE, TRUE), Kw(6, 0, FALSE, TRUE)>>,
     [i \in 1..(MaxListed - 1) |-> Kw(i, 5, FALSE, FALSE)],
     [i \in 1..MaxListed |-> Kw(i, 5, FALSE, FALSE)]}

\* the JSON-LD keywords of the pages
LdKeywordLists ==
    {<<>>,
     <<Kw(1, 4, TRUE, FALSE)>>,
     <<Kw(40, 5, FALSE, TRUE), Kw(40, 5, TRUE, FALSE), Kw(41, 2, FALSE, FALSE)>>,
     <<Kw(42, 31, FALSE, FALSE)>>}

\* the words of the body texts with their counts
WordFrequencies ==
    {<<>>,
     <<[word |-> Kw(50, 5, FALSE, FALSE), count |-> 3],
       [word |-> Kw(51, 5, FALSE, FALSE), count |-> 1]>>}

\* the date strings pages carry
IsoOffsetDate ==
    <<N(4, 2025), L("-"), N(2, 8), L("-"), N(2, 22), L("T")>> \o SampleHMS \o <<Off(2, 1)>>
IsoZuluDate ==
    <<N(4, 2025), L("-"), N(2, 8), L("-"), N(2, 23), L("T")>> \o SampleHMS \o <<L("Z")>>
NoCalendarDate == <<N(4, 2025), L("-"), N(2, 13), L("-"), N(2, 45)>>
LabelledDate == <<L("Updated:"), L(" "), N(4, 2025), L("-"), N(2, 8), L("-"), N(2, 24)>>
LongDate == <<N(2, 25), L(" "), Month(8), L(" "), N(4, 2025)>>

\* the pages process_html is called with: [parse_ok: the outcome of tl::parse,
\* blank: the page is whitespace only, url_lang / lang_attr: what the url and the
\* lang attribute say, html_detect / content_detect: what whatlang finds in
\* the page and in its body text, content: the body text, rich: the page has
\* headings, an image and a description, tech: the body text holds technical
\* keywords, meta_keywords / ld_keywords: the entries of its keywords meta tag
\* and JSON-LD keywords, word_freq: the words of the body text with their
\* counts, the date strings of its meta tags, JSON-LD and <time>, base_url:
\* the url argument, canonical: the href of its first <link rel="canonical">,
\* meta_categories: the entries of its category meta tag, ld_genre and
\* ld_section: genre and articleSection of its JSON-LD]
\* the url the pages are fetched from
BaseUrl == "https://example.com/page"
\* the href of a <link rel="canonical">: absolute when it starts with "http"
Href(absolute, str) == [absolute |-> absolute, s |-> str]

PlainPage ==
    [parse_ok |-> TRUE, blank |-> FALSE, url_lang |-> "", lang_attr |-> "",
     html_detect |-> "", content_detect |-> "en", content |-> EmptyText,
     rich |-> FALSE, tech |-> FALSE,
     meta_keywords |-> <<>>, ld_keywords |-> <<>>, word_freq |-> <<>>,
     meta_pub |-> None, meta_mod |-> None, ld_pub |-> None, time_dt |-> None,
     base_url |-> BaseUrl, canonical |-> None,
     meta_categories |-> <<>>, ld_genre |-> None, ld_section |-> None]

\* pages of every language and body text, without dates and with a meta date
LanguagePages ==
    {[PlainPage EXCEPT !.url_lang = u, !.lang_attr = l, !.html_detect = h,
                       !.content_detect = c, !.content = t, !.rich = r,
                       !.tech = (x /\ t.words > 0), !.meta_pub = d] :
        u \in {"en", ""}, l \in {"", "en", "fr"}, h \in {"en", ""}, c \in {"en", "fr"},
        t \in {EmptyText, [words |-> 0, entities |-> 1], [words |-> 3, entities |-> 0],
               [words |-> 150, entities |-> 1], [words |-> 1200, entities |-> 0],
               [words |-> 12000, entities |-> 0]},
        r \in BOOLEAN, x \in BOOLEAN, d \in {None, Some(IsoOffsetDate)}}

\* English and French pages with every combination of date sources
DatedPages ==
    {[PlainPage EXCEPT !.lang_attr = l, !.content_detect = l, !.rich = TRUE,
                       !.content = [words |-> 150, entities |-> 1],
                       !.meta_pub = a, !.meta_mod = b, !.ld_pub = c, !.time_dt = d] :
        l \in {"en", "fr"},
        a \in {None, Some(IsoOffsetDate), Some(<<Word(1)>>), Some(NoCalendarDate)},
        b \in {None, Some(LabelledDate)},
        c \in {None, Some(LongDate)},
        d \in {None, Some(IsoZuluDate)}}

\* English pages with every combination of keyword sources
KeywordPages ==
    {[PlainPage EXCEPT !.lang_attr = "en", !.content = [words |-> 150, entities |-> 0],
                       !.meta_keywords = m, !.ld_keywords = l, !.word_freq = w] :
        m \in MetaKeywordLists, l \in LdKeywordLists, w \in WordFrequencies}

\* English pages with a canonical link: to the page itself, to another
\* url, relative, and with an empty href
CanonicalPages ==
    {[PlainPage EXCEPT !.lang_attr = "en", !.canonical = Some(h)] :
        h \in {Href(TRUE, BaseUrl), Href(TRUE, "https://example.com/canonical"),
               Href(FALSE, "canonical"), Href(FALSE, "")}}

\* the most entries a category meta tag of the pages lists
MaxCategories == 11

\* English pages with a category meta tag and JSON-LD genre and articleSection
CategoryPages ==
    {[PlainPage EXCEPT !.lang_attr = "en", !.meta_categories = m,
                       !.ld_genre = g, !.ld_section = a] :
        m \in {<<>>,
               <<Kw(63, 5, TRUE, TRUE), Kw(61, 4, FALSE, FALSE), Kw(61, 4, TRUE, FALSE),
                 Kw(62, 2, FALSE, FALSE), Kw(60, 30, FALSE, TRUE), Kw(64, 3, FALSE, FALSE)>>,
               [i \in 1..MaxCategories |-> Kw(60 + i, 5, FALSE, FALSE)]},
        g \in {None, Some(Kw(80, 5, TRUE, FALSE))},
        a \in {None, Some(Kw(80, 5, FALSE, FALSE)), Some(Kw(81, 7, TRUE, FALSE))}}

Pages ==
    LanguagePages \cup DatedPages \cup KeywordPages \cup CanonicalPages \cup CategoryPages
    \cup {[PlainPage EXCEPT !.parse_ok = FALSE], [PlainPage EXCEPT !.blank = TRUE]}

\* ProcessedDocument::default() (types.rs:100-128), the fields the model follows
DefaultDocument ==
    [main_content |-> EmptyText, title |-> "", description |-> 0, language |-> "",
     keywords |-> <<>>, headings |-> 0, images |-> 0,
     word_count |-> 0, content_quality_score |-> 0, is_technical_content |-> FALSE,
     published_date |-> None, modified_date |-> None, text_chunks |-> <<>>,
     canonical_url |-> "", content_categories |-> <<>>]

PipeInit ==
    /\ ChunkIdle /\ CallIdle /\ LazyIdle
    /\ page \in Pages
    /\ doc = DefaultDocument
    /\ result = <<>>
    /\ pipe_pc = "start"

\* clean_date_string / parse_date_string on a date string the page may carry
CleanIfPresent(opt) == IF opt.some THEN clean_date_string(opt.val) ELSE Returned(None)
ParseIfPresent(opt) == IF opt.some THEN parse_date_string(opt.val, 1) ELSE Returned(None)

\* lib.rs:144: tl::parse; its error is returned
ParseHtml ==
    /\ pipe_pc = "start"
    /\ pipe_pc' = IF page.parse_ok THEN "parsed" ELSE "error"
    /\ UNCHANGED <<page, doc, result>>
    /\ UNCHANGED nonPipeVars

\* extract_content up to extract_meta_tags (extractor.rs:64-69, 93-114): the
\* canonical url is the base url, then title, language, description,
\* keywords, categories, the dates of the meta tags (229-248) and the href
\* of the canonical link (259-266); a stack overflow in a date function ends
\* the process
ExtractMetaTags ==
    /\ pipe_pc = "parsed"
    /\ \E pub \in {CleanIfPresent(page.meta_pub)}, mod \in {CleanIfPresent(page.meta_mod)} :
          IF pub.overflow \/ mod.overflow
          THEN pipe_pc' = "aborted" /\ doc' = doc
          ELSE /\ pipe_pc' = "meta_tags"
               /\ doc' = [doc EXCEPT !.title = "Title",
                                     !.language = page.lang_attr,
                                     !.description = IF page.rich THEN 60 ELSE 0,
                                     !.keywords = meta_keywords(@, page.meta_keywords),
                                     !.content_categories =
                                         IF page.meta_categories = <<>> THEN @
                                         ELSE meta_categories(@, page.meta_categories),
                                     !.canonical_url =
                                         IF page.canonical.some THEN page.canonical.val.s
                                         ELSE page.base_url,
                                     !.published_date = pub.ret,
                                     !.modified_date = mod.ret]
    /\ UNCHANGED <<page, result>>
    /\ UNCHANGED nonPipeVars

\* extract_structured_data with extract_from_json_ld (extractor.rs:1316-1346),
\* then headings, images and links (extractor.rs:115-124)
ExtractStructuredData ==
    /\ pipe_pc = "meta_tags"
    /\ \E ld \in {IF ~doc.published_date.some /\ page.ld_pub.some /\ page.ld_pub.val # <<>>
                  THEN clean_date_string(page.ld_pub.val)
                  ELSE Returned(None)} :
          IF ld.overflow
          THEN pipe_pc' = "aborted" /\ doc' = doc
          ELSE /\ pipe_pc' = "structured_data"
               /\ doc' = [doc EXCEPT !.published_date =
                                         IF ld.ret.some /\ ld.ret.val # <<>> THEN ld.ret ELSE @,
                                     !.keywords = json_ld_keywords(@, page.ld_keywords),
                                     !.content_categories =
                                         push_lowercase(push_lowercase(@, page.ld_genre),
                                                        page.ld_section),
                                     !.canonical_url =
                                         IF page.canonical.some
                                         THEN canonical_of_link(page.canonical.val, page.base_url)
                                         ELSE @,
                                     !.headings = IF page.rich THEN 4 ELSE 0,
                                     !.images = IF page.rich THEN 1 ELSE 0]
    /\ UNCHANGED <<page, result>>
    /\ UNCHANGED nonPipeVars

\* extract_publication_dates (extractor.rs:730-807): the meta tags again, then
\* the <time> element
ExtractPublicationDates ==
    /\ pipe_pc = "structured_data"
    /\ \E pub \in {ParseIfPresent(page.meta_pub)}, mod \in {ParseIfPresent(page.meta_mod)},
          time \in {ParseIfPresent(page.time_dt)} :
          IF pub.overflow \/ mod.overflow \/ time.overflow
          THEN pipe_pc' = "aborted" /\ doc' = doc
          ELSE LET published == IF pub.ret.some THEN pub.ret ELSE doc.published_date
                   modified == IF mod.ret.some THEN mod.ret ELSE doc.modified_date
               IN  /\ pipe_pc' = "publication_dates"
                   /\ doc' = [doc EXCEPT
                                !.published_date =
                                    IF time.ret.some /\ ~published.some THEN time.ret
                                    ELSE published,
                                !.modified_date =
                                    IF time.ret.some /\ published.some /\ ~modified.some
                                    THEN time.ret
                                    ELSE modified]
    /\ UNCHANGED <<page, result>>
    /\ UNCHANGED nonPipeVars

\* the rest of FastExtractor::extract_content (extractor.rs:74-89): the main
\* content, calculate_comprehensive_metrics (971-1003) and is_technical_content
ExtractMainContent ==
    /\ pipe_pc = "publication_dates"
    /\ doc' = [doc EXCEPT
                 !.main_content = page.content,
                 !.keywords = IF @ = <<>>
                              THEN extract_keywords_from_content(
                                       IF page.content = EmptyText THEN <<>> ELSE page.word_freq, 10)
                              ELSE @,
                 !.word_count = IF page.content = EmptyText THEN @ ELSE WordCount(page.content),
                 !.content_quality_score =
                     IF page.content = EmptyText THEN @
                     ELSE calculate_quality_score(WordCount(page.content), doc.headings, page.tech),
                 !.is_technical_content = page.tech]
    /\ pipe_pc' = "extracted"
    /\ UNCHANGED <<page, result>>
    /\ UNCHANGED nonPipeVars

\* lib.rs:153-160: normalize the two date fields
NormalizeDates ==
    /\ pipe_pc = "extracted"
    /\ doc' = [doc EXCEPT
                 !.published_date = IF @.some THEN normalize_date(@.val) ELSE @,
                 !.modified_date = IF @.some THEN normalize_date(@.val) ELSE @]
    /\ pipe_pc' = "normalized"
    /\ UNCHANGED <<page, result>>
    /\ UNCHANGED nonPipeVars

\* lib.rs:194-195: the minimal document returned for non-English content
tombstone_Untitled(d) ==
    [d EXCEPT !.main_content = EmptyText, !.text_chunks = <<>>, !.title = ""]
tombstone(d) == [d EXCEPT !.main_content = EmptyText, !.text_chunks = <<>>]

\* lib.rs:186-197: detect the language, and return early for non-English
AdmissionFilter ==
    /\ pipe_pc = "normalized"
    /\ LET detected == detect_language_html(page)
           d1 == IF detected.some THEN [doc EXCEPT !.language = detected.val] ELSE doc
       IN  IF d1.language # "en" /\ ~is_english(d1.main_content, page)
           THEN doc' = tombstone(d1) /\ pipe_pc' = "emitted"
           ELSE doc' = d1 /\ pipe_pc' = "admitted"
    /\ UNCHANGED <<page, result>>
    /\ UNCHANGED nonPipeVars

\* lib.rs:199-211: clean, chunk and score, and return the document
CleanChunkScore ==
    /\ pipe_pc = "admitted"
    /\ LET d1 == [doc EXCEPT !.main_content = clean_text_body(@),
                             !.description = clean_description_len(@)]
           d2 == [d1 EXCEPT !.text_chunks = create_chunks(d1.main_content, 2500, 100),
                            !.word_count = WordCount(d1.main_content)]
           d3 == [d2 EXCEPT !.content_quality_score = calculate_content_quality(d2)]
       IN  doc' = [d3 EXCEPT !.is_technical_content =
                       detect_technical_content(d3.main_content, IF page.tech THEN 1 ELSE 0)]
    /\ pipe_pc' = "emitted"
    /\ UNCHANGED <<page, result>>
    /\ UNCHANGED nonPipeVars

\* the keys of the dict process_html builds from Ok(doc) (lib.rs:61-125) and
\* from Err(e) (lib.rs:128-134)
OkKeys ==
    {"main_content", "title", "description", "language", "keywords", "headings",
     "images", "links", "table_of_contents", "word_count", "content_quality_score",
     "is_technical_content", "content_categories", "canonical_url", "published_date",
     "modified_date", "author_info", "text_chunks", "structured_data", "meta_tags",
     "open_graph", "twitter_cards", "icons", "semantic_info"}
ErrKeys == {"error", "main_content", "title", "description", "keywords", "text_chunks"}

\* process_html (lib.rs:55-139): the dict built from the result of
\* internal_process_html; [keys, and the values of the keys both dicts have]
ReturnDict ==
    /\ pipe_pc \in {"emitted", "error"}
    /\ result' = IF pipe_pc = "emitted"
                 THEN [keys |-> OkKeys, main_content |-> doc.main_content,
                       title |-> doc.title, description |-> doc.description,
                       keywords |-> doc.keywords, text_chunks |-> doc.text_chunks]
                 ELSE [keys |-> ErrKeys, main_content |-> EmptyText,
                       title |-> "", description |-> 0,
                       keywords |-> <<>>, text_chunks |-> <<>>]
    /\ pipe_pc' = "returned"
    /\ UNCHANGED <<page, doc>>
    /\ UNCHANGED nonPipeVars

PipeNext ==
    \/ ParseHtml
    \/ ExtractMetaTags
    \/ ExtractStructuredData
    \/ ExtractPublicationDates
    \/ ExtractMainContent
    \/ NormalizeDates
    \/ AdmissionFilter
    \/ CleanChunkScore
    \/ ReturnDict

SpecPipeline == PipeInit /\ [][PipeNext]_vars

(***************************************************************************)
(* ContentScorer (scorer.rs).  A document is described by what the scorer  *)
(* reads in it; a url by what Url::parse finds in it.  Scores are in       *)
(* thousandths, and a product is rounded down to a thousandth.             *)
(***************************************************************************)
\* score *= pct / 100
Scale(score, pct) == (score * pct) \div 100

\* DOMAIN_SCORES (scorer.rs:10-42): [key: the labels of the key, dotted: the
\* key starts with '.', score]
DOMAIN_SCORES ==
    {[key |-> <<"wikipedia", "org">>, dotted |-> FALSE, score |-> 900],
     [key |-> <<"github", "com">>, dotted |-> FALSE, score |-> 850],
     [key |-> <<"stackoverflow", "com">>, dotted |-> FALSE, score |-> 800],
     [key |-> <<"arxiv", "org">>, dotted |-> FALSE, score |-> 850],
     [key |-> <<"nature", "com">>, dotted |-> FALSE, score |-> 900],
     [key |-> <<"science", "org">>, dotted |-> FALSE, score |-> 900],
     [key |-> <<"pubmed", "ncbi", "nlm", "nih", "gov">>, dotted |-> FALSE, score |-> 850],
     [key |-> <<"edu">>, dotted |-> TRUE, score |-> 800],
     [key |-> <<"ac", "uk">>, dotted |-> TRUE, score |-> 800],
     [key |-> <<"gov">>, dotted |-> TRUE, score |-> 750],
     [key |-> <<"mil">>, dotted |-> TRUE, score |-> 700],
     [key |-> <<"reuters", "com">>, dotted |-> FALSE, score |-> 800],
     [key |-> <<"bbc", "com">>, dotted |-> FALSE, score |-> 800],
     [key |-> <<"cnn", "com">>, dotted |-> FALSE, score |-> 700],
     [key |-> <<"npr", "org">>, dotted |-> FALSE, score |-> 750],
     [key |-> <<"techcrunch", "com">>, dotted |-> FALSE, score |-> 700],
     [key |-> <<"arstechnica", "com">>, dotted |-> FALSE, score |-> 750],
     [key |-> <<"wired", "com">>, dotted |-> FALSE, score |-> 700],
     [key |-> <<"org">>, dotted |-> TRUE, score |-> 600],
     [key |-> <<"com">>, dotted |-> TRUE, score |-> 500],
     [key |-> <<"net">>, dotted |-> TRUE, score |-> 450],
     [key |-> <<"info">>, dotted |-> TRUE, score |-> 400],
     [key |-> <<"biz">>, dotted |-> TRUE, score |-> 350]}

\* str::ends_with on dot-separated labels: domain ends with "." and the key
EndsWithDotted(domain, key) ==
    /\ Len(domain) > Len(key)
    /\ SubSeq(domain, Len(domain) - Len(key) + 1, Len(domain)) = key

\* ContentScorer::calculate_domain_score (scorer.rs:89-108): the scores the
\* call can return, the HashMap being iterated in any order
calculate_domain_score(url) ==
    IF url.empty \/ ~url.valid \/ ~url.domain.some THEN {300}
    ELSE LET domain == url.domain.val
             exact == {e \in DOMAIN_SCORES : ~e.dotted /\ e.key = domain}
             tld == {e \in DOMAIN_SCORES : e.dotted /\ EndsWithDotted(domain, e.key)}
         IN  IF exact # {} THEN {e.score : e \in exact}
             ELSE IF tld # {} THEN {e.score : e \in tld}
             ELSE {300}

\* calculate_length_score (scorer.rs:138-147)
calculate_length_score(word_count) ==
    IF word_count < 30 THEN 50
    ELSE IF word_count < 50 THEN 150
    ELSE IF word_count < 75 THEN 400
    ELSE IF word_count < 150 THEN 800
    ELSE IF word_count < 300 THEN 1300
    ELSE IF word_count <= 1000 THEN 1500
    ELSE IF word_count <= 3000 THEN 1400
    ELSE 1200

\* calculate_structure_score (scorer.rs:149-158)
calculate_structure_score(d) ==
    Scale(IF d.code_fence THEN Scale(ScoreUnit, 120) ELSE ScoreUnit,
          IF d.headings_count >= 3 THEN 115 ELSE IF d.headings_count >= 1 THEN 105 ELSE 100)

\* s.max(least)
AtLeast(s, least) == IF s < least THEN least ELSE s
\* s.min(most)
AtMost(s, most) == IF s > most THEN most ELSE s

\* calculate_content_type_score (scorer.rs:160-184); strength is the first
\* entry of EDUCATIONAL_INDICATORS, in the order the HashMap is iterated, with
\* an indicator in the text, "none" when there is none
calculate_content_type_score(d, strength) ==
    AtLeast(Scale(Scale(Scale(ScoreUnit,
                              CASE strength = "strong" -> 140
                                [] strength = "medium" -> 125
                                [] strength = "none" -> 100
                                [] OTHER -> 110),
                        100 + d.positive_count * 8),
                  100 - d.negative_count * 15),
            100)

\* calculate_language_quality_score (scorer.rs:186-203); cap_ratio in percent
calculate_language_quality_score(d) ==
    IF d.empty THEN 100
    ELSE Scale(IF d.cap_ratio >= 2 /\ d.cap_ratio <= 8 THEN Scale(ScoreUnit, 110)
               ELSE IF d.cap_ratio > 15 THEN Scale(ScoreUnit, 80)
               ELSE ScoreUnit,
               IF d.diverse THEN 110 ELSE 100)

\* calculate_metadata_score (scorer.rs:205-215)
calculate_metadata_score(d) ==
    Scale(Scale(Scale(Scale(Scale(ScoreUnit,
                                  IF d.title_len >= 10 /\ d.title_len <= 120 THEN 110 ELSE 100),
                            IF d.title_howto THEN 105 ELSE 100),
                      IF d.description_len > 50 THEN 105 ELSE 100),
                IF d.author_name THEN 102 ELSE 100),
          IF d.published_date THEN 102 ELSE 100)

\* calculate_technical_bonus (scorer.rs:217-224)
calculate_technical_bonus(d) ==
    AtMost(Scale(Scale(Scale(ScoreUnit,
                             IF d.code_fence \/ d.code_tag THEN 125 ELSE 100),
                       IF d.def_keyword THEN 115 ELSE 100),
                 IF d.class_keyword THEN 110 ELSE 100),
           2500)

\* calculate_authoritativeness_score (scorer.rs:226-242)
calculate_authoritativeness_score(d) ==
    AtMost(Scale(Scale(IF d.citation_count > 0
                       THEN Scale(ScoreUnit, 100 + AtMost(d.citation_count * 10, 50))
                       ELSE ScoreUnit,
                       IF d.credential THEN 110 ELSE 100),
                 IF d.institutional THEN 115 ELSE 100),
           2000)

\* ContentScorer::calculate_content_quality_score (scorer.rs:110-136), the
\* weights in hundredths
calculate_content_quality_score(d, strength) ==
    IF d.empty THEN 100
    ELSE (20 * calculate_length_score(d.word_count)
          + 20 * calculate_structure_score(d)
          + 15 * calculate_content_type_score(d, strength)
          + 10 * calculate_language_quality_score(d)
          + 10 * calculate_metadata_score(d)
          + 10 * calculate_technical_bonus(d)
          + 10 * calculate_authoritativeness_score(d)
          + 5 * ScoreUnit) \div 100

\* a document without content
EmptyScored ==
    [empty |-> TRUE, word_count |-> 0, code_fence |-> FALSE, code_tag |-> FALSE,
     def_keyword |-> FALSE, class_keyword |-> FALSE, headings_count |-> 0,
     educational |-> {}, positive_count |-> 0, negative_count |-> 0,
     cap_ratio |-> 0, diverse |-> FALSE, title_len |-> 0, title_howto |-> FALSE,
     description_len |-> 0, author_name |-> FALSE, published_date |-> FALSE,
     citation_count |-> 0, credential |-> FALSE, institutional |-> FALSE]

\* the documents calculate_content_quality_score is called with: every band
\* of word counts and headings, with and without code, indicators, quality
\* words, capitals, metadata and citations
ScoredDocuments ==
    {EmptyScored, [EmptyScored EXCEPT !.title_len = 20, !.educational = {"strong"}]}
    \cup
    {[EmptyScored EXCEPT
        !.empty = FALSE, !.word_count = wc, !.headings_count = h,
        !.code_fence = code, !.def_keyword = code, !.class_keyword = code,
        !.educational = edu, !.positive_count = q[1], !.negative_count = q[2],
        !.cap_ratio = lang[1], !.diverse = lang[2],
        !.title_len = IF meta THEN 20 ELSE 5, !.title_howto = meta,
        !.description_len = IF meta THEN 60 ELSE 0, !.author_name = meta,
        !.published_date = meta,
        !.citation_count = auth[1], !.credential = auth[2], !.institutional = auth[2]] :
        wc \in {1, 29, 49, 74, 149, 299, 1000, 3000, 3001},
        h \in {0, 1, 3}, code \in BOOLEAN,
        edu \in {{}, {"weak"}, {"strong", "medium", "weak"}},
        q \in {<<0, 0>>, <<5, 0>>, <<0, 5>>},
        lang \in {<<1, FALSE>>, <<5, TRUE>>, <<20, TRUE>>},
        meta \in BOOLEAN,
        auth \in {<<0, FALSE>>, <<3, FALSE>>, <<7, TRUE>>}}

\* the hosts of the urls calculate_domain_score is called with
Hosts ==
    {<<"wikipedia", "org">>, <<"en", "wikipedia", "org">>, <<"github", "com">>,
     <<"gist", "github", "com">>, <<"lab", "example", "edu">>, <<"example", "ac", "uk">>,
     <<"nasa", "gov">>, <<"pubmed", "ncbi", "nlm", "nih", "gov">>,
     <<"randomsite", "xyz">>, <<"example", "org">>, <<"example", "net">>,
     <<"edu">>, <<"localhost">>}

\* the urls: [empty: the string is empty, valid: Url::parse succeeds,
\* domain: what Url::domain returns, None for an IP address]
Urls ==
    {[empty |-> TRUE, valid |-> FALSE, domain |-> None],
     [empty |-> FALSE, valid |-> FALSE, domain |-> None],
     [empty |-> FALSE, valid |-> TRUE, domain |-> None]}
    \cup {[empty |-> FALSE, valid |-> TRUE, domain |-> Some(h)] : h \in Hosts}

ScorerInit ==
    /\ ChunkIdle /\ PipeIdle /\ LazyIdle
    /\ \/ call_fn = "calculate_content_quality_score" /\ call_arg \in ScoredDocuments
       \/ call_fn = "calculate_content_type_score" /\ call_arg \in ScoredDocuments
       \/ call_fn = "calculate_domain_score" /\ call_arg \in Urls
    /\ call_out = 0
    /\ call_pc = "call"

\* a call of ContentScorer::calculate_content_quality_score (scorer.rs:110-136)
CalculateContentQualityScore ==
    /\ call_pc = "call" /\ call_fn = "calculate_content_quality_score"
    /\ \E strength \in (IF call_arg.educational = {} THEN {"none"} ELSE call_arg.educational) :
          call_out' = calculate_content_quality_score(call_arg, strength)
    /\ call_pc' = "returned"
    /\ UNCHANGED <<call_fn, call_arg>>
    /\ UNCHANGED nonCallVars

\* a call of ContentScorer::calculate_content_type_score (scorer.rs:160-184):
\* the loop over EDUCATIONAL_INDICATORS stops at the first strength, in the
\* order the HashMap is iterated, that has an indicator in the text
CalculateContentTypeScore ==
    /\ call_pc = "call" /\ call_fn = "calculate_content_type_score"
    /\ \E strength \in (IF call_arg.educational = {} THEN {"none"} ELSE call_arg.educational) :
          call_out' = calculate_content_type_score(call_arg, strength)
    /\ call_pc' = "returned"
    /\ UNCHANGED <<call_fn, call_arg>>
    /\ UNCHANGED nonCallVars

\* a call of ContentScorer::calculate_domain_score (scorer.rs:89-108)
CalculateDomainScore ==
    /\ call_pc = "call" /\ call_fn = "calculate_domain_score"
    /\ \E score \in calculate_domain_score(call_arg) : call_out' = score
    /\ call_pc' = "returned"
    /\ UNCHANGED <<call_fn, call_arg>>
    /\ UNCHANGED nonCallVars

ScorerNext ==
    \/ CalculateContentQualityScore
    \/ CalculateContentTypeScore
    \/ CalculateDomainScore

SpecScorer == ScorerInit /\ [][ScorerNext]_vars

\* every place a content_quality_score is computed: the pipeline and the
\* ContentScorer
ScoresInit == PipeInit \/ ScorerInit
ScoresNext == PipeNext \/ ScorerNext
SpecScores == ScoresInit /\ [][ScoresNext]_vars

(***************************************************************************)
(* MetadataExtractor (extractor/metadata_extractor.rs): get_title and       *)
(* get_keywords on the metadata collect_metadata gathered.                 *)
(***************************************************************************)
\* Option::or_else
or_else(a, b) == IF a.some THEN a ELSE b
\* .map(|t| t.trim().to_string()).filter(|t| !t.is_empty())
TrimmedNonEmpty(opt) ==
    IF opt.some /\ Trim(opt.val) # <<>> THEN Some(Trim(opt.val)) ELSE None

\* MetadataExtractor::get_title (metadata_extractor.rs:148-156)
get_title(m) ==
    TrimmedNonEmpty(or_else(or_else(or_else(m.og_title, m.twitter_title), m.title), m.h1))

\* the entries get_keywords inserts from one source
\* (metadata_extractor.rs:185-190, 200-206)
Inserted(listed) ==
    {[k EXCEPT !.pad = FALSE] : k \in {e \in Entries(listed) : e.len # 0 /\ e.len >= 3}}

\* MetadataExtractor::get_keywords (metadata_extractor.rs:168-213): the sets
\* of entries the call can return, the HashSet being iterated in any order
get_keywords(m) ==
    LET keywords == IF Inserted(m.article_tags) # {}
                    THEN Inserted(m.article_tags)
                    ELSE Inserted(m.keywords)
    IN  IF Cardinality(keywords) <= 15 THEN {keywords}
        ELSE {keywords \ dropped : dropped \in
                 {x \in SUBSET keywords : Cardinality(x) = Cardinality(keywords) - 15}}

\* contents of the og:title and twitter:title meta tags, kept as written
MetaTitles(letter) ==
    {None, Some(<<>>), Some(<<" ", " ">>), Some(<<letter>>), Some(<<" ", letter, " ">>)}
\* texts of <title> and of the first <h1>, trimmed by collect_metadata
\* (metadata_extractor.rs:136-144)
ElementTitles(letter) == {None, Some(<<>>), Some(<<letter>>)}

\* the metadata the calls are made on
Metadata ==
    {[og_title |-> og, twitter_title |-> tw, title |-> t, h1 |-> h,
      article_tags |-> <<>>, keywords |-> <<>>] :
        og \in MetaTitles("A"), tw \in MetaTitles("B"),
        t \in ElementTitles("C"), h \in ElementTitles("D")}
    \cup
    {[og_title |-> None, twitter_title |-> None, title |-> None, h1 |-> None,
      article_tags |-> a, keywords |-> k] :
        a \in LdKeywordLists, k \in MetaKeywordLists}

MetadataInit ==
    /\ ChunkIdle /\ PipeIdle /\ LazyIdle
    /\ call_fn \in {"get_title", "get_keywords"}
    /\ call_arg \in Metadata
    /\ call_out = None
    /\ call_pc = "call"

\* a call of MetadataExtractor::get_title
GetTitle ==
    /\ call_pc = "call" /\ call_fn = "get_title"
    /\ call_out' = get_title(call_arg)
    /\ call_pc' = "returned"
    /\ UNCHANGED <<call_fn, call_arg>>
    /\ UNCHANGED nonCallVars

\* a call of MetadataExtractor::get_keywords
GetKeywords ==
    /\ call_pc = "call" /\ call_fn = "get_keywords"
    /\ \E returned \in get_keywords(call_arg) : call_out' = Some(returned)
    /\ call_pc' = "returned"
    /\ UNCHANGED <<call_fn, call_arg>>
    /\ UNCHANGED nonCallVars

MetadataNext ==
    \/ GetTitle
    \/ GetKeywords

SpecMetadata == MetadataInit /\ [][MetadataNext]_vars

(***************************************************************************)
(* Strings with multi-byte characters.  A string is a sequence of runs     *)
(* [c, n]: n times the character c.  "E2", "E3" and "E4" stand for a       *)
(* character of two, three and four UTF-8 bytes (e.g. e-acute, a kanji, an *)
(* emoji), "&amp;" for an HTML entity, every other c for itself.           *)
(***************************************************************************)
Run(c, n) == [c |-> c, n |-> n]
\* char::len_utf8, and the length of the entity
Width(c) == CASE c = "E2" -> 2 [] c = "E3" -> 3 [] c = "E4" -> 4 [] c = "&amp;" -> 5
              [] OTHER -> 1

\* str::len
RECURSIVE StrLen(_)
StrLen(s) == IF s = <<>> THEN 0 ELSE Width(s[1].c) * s[1].n + StrLen(Tail(s))

\* str::is_char_boundary(i), for i <= str::len
RECURSIVE is_char_boundary(_, _)
is_char_boundary(s, i) ==
    IF i = 0 THEN TRUE
    ELSE IF s = <<>> THEN FALSE
    ELSE IF i <= Width(s[1].c) * s[1].n THEN i % Width(s[1].c) = 0
    ELSE is_char_boundary(Tail(s), i - Width(s[1].c) * s[1].n)

\* &s[..i] where i is a char boundary
RECURSIVE SliceTo(_, _)
SliceTo(s, i) ==
    IF i = 0 \/ s = <<>> THEN <<>>
    ELSE IF i < Width(s[1].c) * s[1].n THEN <<Run(s[1].c, i \div Width(s[1].c))>>
    ELSE <<s[1]>> \o SliceTo(Tail(s), i - Width(s[1].c) * s[1].n)

\* str::rfind(c): the byte offset of the last c
rfind(s, c) ==
    IF \E j \in 1..Len(s) : s[j].c = c
    THEN LET j == CHOOSE k \in 1..Len(s) : s[k].c = c /\ \A l \in (k + 1)..Len(s) : s[l].c # c
         IN  Some(StrLen(SubSeq(s, 1, j - 1)) + Width(c) * (s[j].n - 1))
    ELSE None

\* the outcome of a call that can panic
Ok(x) == [panic |-> FALSE, ret |-> x]
Panicked == [panic |-> TRUE, ret |-> <<>>]

\* HTML_ENTITIES.replace_all(.., " ") (cleaner.rs:9, 105)
ReplaceEntities(s) == [j \in 1..Len(s) |-> IF s[j].c = "&amp;" THEN Run(" ", s[j].n) ELSE s[j]]
\* EXTRA_WHITESPACE.replace_all(.., " ") (cleaner.rs:8, 108): a run of blanks
\* becomes one blank
RECURSIVE CollapseWhitespace(_)
CollapseWhitespace(s) ==
    IF s = <<>> THEN <<>>
    ELSE IF s[1].c = " "
         THEN (IF Len(s) > 1 /\ s[2].c = " " THEN CollapseWhitespace(Tail(s))
               ELSE <<Run(" ", 1)>> \o CollapseWhitespace(Tail(s)))
         ELSE <<s[1]>> \o CollapseWhitespace(Tail(s))
\* str::trim on a collapsed string
StrTrim(s) ==
    LET from == IF s # <<>> /\ s[1].c = " " THEN 2 ELSE 1
        to == IF s # <<>> /\ s[Len(s)].c = " " THEN Len(s) - 1 ELSE Len(s)
    IN  SubSeq(s, from, to)

\* the length a description is cut to (cleaner.rs:112)
DescriptionLimit == 300
Ellipsis == <<Run(".", 3)>>

\* cleaner.rs:112-121 on the trimmed description: a slice at a byte offset
\* that is no char boundary panics
TruncateDescription(cleaned) ==
    IF StrLen(cleaned) > DescriptionLimit
    THEN IF ~is_char_boundary(cleaned, DescriptionLimit) THEN Panicked
         ELSE IF rfind(SliceTo(cleaned, DescriptionLimit), ".").some
         THEN Ok(SliceTo(cleaned, rfind(SliceTo(cleaned, DescriptionLimit), ".").val + 1))
         ELSE IF rfind(SliceTo(cleaned, DescriptionLimit), " ").some
         THEN Ok(SliceTo(cleaned, rfind(SliceTo(cleaned, DescriptionLimit), " ").val) \o Ellipsis)
         ELSE IF ~is_char_boundary(cleaned, DescriptionLimit - 3) THEN Panicked
         ELSE Ok(SliceTo(cleaned, DescriptionLimit - 3) \o Ellipsis)
    ELSE Ok(cleaned)

\* FastCleaner::clean_description (cleaner.rs:97-124)
clean_description(description) ==
    IF description = <<>> THEN Ok(<<>>)
    ELSE TruncateDescription(StrTrim(CollapseWhitespace(ReplaceEntities(description))))

(***************************************************************************)
(* FastLanguageDetector (language_detector.rs).  A url is                  *)
(* [empty, valid, domain, path]: domain is what Url::domain returns, a      *)
(* sequence of labels, each label a sequence of word pieces ("techcrunch", *)
(* <<"my", "wikipedia">>), and path the segments between the slashes.  A    *)
(* text is [body, langs, whatlang]: body is the tokens of the string (a    *)
(* "<...>" tag, a run of white space, a word that may begin with           *)
(* "https://"), langs the values that follow each "lang=" of the string,   *)
(* in order, and whatlang what the whatlang crate makes of the cleaned     *)
(* sample.                                                                 *)
(***************************************************************************)
ENGLISH_DOMAINS ==
    {"com", "org", "net", "edu", "gov", "mil", "int", "us", "uk", "ca", "au", "nz", "ie",
     "za", "www", "en", "english"}
ENGLISH_DOMAIN_NAMES ==
    {"google", "facebook", "twitter", "youtube", "reddit", "stackoverflow", "github",
     "microsoft", "apple", "amazon", "wikipedia", "linkedin", "instagram", "netflix",
     "spotify", "dropbox", "slack", "zoom", "techcrunch", "engadget", "theverge", "wired",
     "ars-technica", "hacker-news", "medium", "substack", "wordpress", "blogspot"}
non_english_indicators ==
    {"de", "es", "fr", "it", "pt", "ru", "zh", "ja", "ko", "deutsch", "espanol",
     "francais", "italiano", "portuguese"}

\* str::to_lowercase of a path segment and of a character
to_lowercase(x) ==
    CASE x = "EN" -> "en" [] x = "ES" -> "es" [] x = "E" -> "e" [] x = "N" -> "n"
      [] x = "F" -> "f" [] x = "R" -> "r" [] x = "U" -> "u" [] x = "S" -> "s"
      [] OTHER -> x

\* path.contains("/seg/"): a segment that a slash follows
PathContains(path, segs) ==
    \E j \in 1..(Len(path) - 1) : to_lowercase(path[j]) \in segs

\* FastLanguageDetector::detect_from_url (language_detector.rs:64-111)
detect_from_url(url) ==
    IF ~url.valid THEN None
    ELSE IF url.domain.some /\ Len(url.domain.val) > 1
            /\ url.domain.val[1] \in {<<"en">>, <<"english">>} THEN Some("en")
    ELSE IF url.domain.some
            /\ \E j \in 1..Len(url.domain.val) : \E k \in 1..Len(url.domain.val[j]) :
                  url.domain.val[j][k] \in ENGLISH_DOMAIN_NAMES THEN Some("en")
    ELSE IF url.domain.some
            /\ Len(url.domain.val[Len(url.domain.val)]) = 1
            /\ url.domain.val[Len(url.domain.val)][1] \in ENGLISH_DOMAINS THEN Some("en")
    ELSE IF PathContains(url.path, {"en", "english"}) THEN Some("en")
    ELSE IF PathContains(url.path, non_english_indicators) THEN Some("non-en")
    ELSE None

\* FastLanguageDetector::extract_html_lang (language_detector.rs:114-136): the
\* first two bytes, lower-cased, of the value that follows the first "lang=":
\* the characters between the quotes, or up to the first white space or ">"
extract_html_lang(html) ==
    IF html.langs = <<>> THEN Ok(None)
    ELSE IF StrLen(html.langs[1]) < 2 THEN Ok(None)
    ELSE IF ~is_char_boundary(html.langs[1], 2) THEN Panicked
    ELSE Ok(Some([j \in 1..Len(SliceTo(html.langs[1], 2)) |->
                    Run(to_lowercase(SliceTo(html.langs[1], 2)[j].c),
                        SliceTo(html.langs[1], 2)[j].n)]))

\* the tokens of a text
Tag == [k |-> "tag", url |-> FALSE, s |-> <<>>]
Sp == [k |-> "sp", url |-> FALSE, s |-> <<>>]
Wordt(s) == [k |-> "word", url |-> FALSE, s |-> s]
UrlWord(s) == [k |-> "word", url |-> TRUE, s |-> s]

\* the sample detect_from_content is cut to (language_detector.rs:191)
SampleLimit == 1000

\* the words of language_detector.rs:176-188 joined by one blank: tags are
\* blanks, and a word that starts with "http://" or "https://" is left out
RECURSIVE JoinWords(_)
JoinWords(ws) ==
    IF ws = <<>> THEN <<>>
    ELSE IF Len(ws) = 1 THEN ws[1].s
    ELSE ws[1].s \o <<Run(" ", 1)>> \o JoinWords(Tail(ws))

\* FastLanguageDetector::clean_text_for_detection
\* (language_detector.rs:171-196): String::truncate panics when the new
\* length is no char boundary
clean_text_for_detection(body) ==
    IF StrLen(JoinWords(SelectSeq(body, LAMBDA tk : tk.k = "word" /\ ~tk.url))) > SampleLimit
    THEN IF is_char_boundary(JoinWords(SelectSeq(body, LAMBDA tk : tk.k = "word" /\ ~tk.url)),
                             SampleLimit)
         THEN Ok(SliceTo(JoinWords(SelectSeq(body, LAMBDA tk : tk.k = "word" /\ ~tk.url)),
                         SampleLimit))
         ELSE Panicked
    ELSE Ok(JoinWords(SelectSeq(body, LAMBDA tk : tk.k = "word" /\ ~tk.url)))

\* the code of a language of whatlang (language_detector.rs:145-157)
LangCode(lang) ==
    CASE lang = "Eng" -> Some(<<Run("e", 1), Run("n", 1)>>)
      [] lang = "Spa" -> Some(<<Run("e", 1), Run("s", 1)>>)
      [] lang = "Fra" -> Some(<<Run("f", 1), Run("r", 1)>>)
      [] lang = "Deu" -> Some(<<Run("d", 1), Run("e", 1)>>)
      [] OTHER -> None

\* FastLanguageDetector::detect_from_content (language_detector.rs:139-168);
\* whatlang: None, or [lang, confidence] with the confidence in hundredths
detect_from_content(txt) ==
    IF clean_text_for_detection(txt.body).panic THEN Panicked
    ELSE IF ~txt.whatlang.some THEN Ok(None)
    ELSE IF ~LangCode(txt.whatlang.val.lang).some THEN Ok(None)
    ELSE IF txt.whatlang.val.confidence > 70 THEN Ok(LangCode(txt.whatlang.val.lang))
    ELSE Ok(None)

En == <<Run("e", 1), Run("n", 1)>>

\* FastLanguageDetector::detect_language (language_detector.rs:32-54)
detect_language(txt, url) ==
    IF \A j \in 1..Len(txt.body) : txt.body[j].k = "sp" THEN Ok(None)
    ELSE IF ~url.empty /\ detect_from_url(url).some /\ detect_from_url(url).val = "en"
         THEN Ok(Some(En))
    ELSE IF extract_html_lang(txt).panic THEN Panicked
    ELSE IF extract_html_lang(txt).ret.some THEN extract_html_lang(txt)
    ELSE detect_from_content(txt)

\* FastLanguageDetector::is_english (language_detector.rs:57-61), which
\* is_english_fast of lib.rs:34-36 returns
is_english_fast(txt, url) ==
    IF detect_language(txt, url).panic THEN Panicked
    ELSE Ok(detect_language(txt, url).ret = Some(En))

(***************************************************************************)
(* FastCleaner::clean_text (cleaner.rs:61-94) on a text made of pieces: a  *)
(* piece is a blank, a full stop, one of the words "vte", "mobile", "edit" *)
(* and "x", the entity "&amp;" or the URL scheme "http://".  No piece      *)
(* holds '@' or a backslash, so EMAIL_PATTERN and UNICODE_HTML_ENTITIES    *)
(* match nowhere in such a text.                                           *)
(***************************************************************************)
Pieces == {" ", ".", "vte", "mobile", "edit", "x", "&amp;", "http://"}
IsWordPiece(p) == p \in {"vte", "mobile", "edit", "x"}
\* the \b of a pattern before and after a piece
StartsWithWordChar(p) == IsWordPiece(p) \/ p = "http://"
EndsWithWordChar(p) == IsWordPiece(p)

\* the length of the run of pieces c at the head of s
RECURSIVE RunOf(_, _)
RunOf(s, c) == IF s # <<>> /\ s[1] = c THEN 1 + RunOf(Tail(s), c) ELSE 0
Drop(s, n) == SubSeq(s, n + 1, Len(s))

\* vte_pattern.replace_all(.., " ") with the pattern \s?vte\s
RECURSIVE ReplaceVte(_)
ReplaceVte(s) ==
    IF s = <<>> THEN <<>>
    ELSE IF Len(s) >= 3 /\ s[1] = " " /\ s[2] = "vte" /\ s[3] = " "
    THEN <<" ">> \o ReplaceVte(Drop(s, 3))
    ELSE IF Len(s) >= 2 /\ s[1] = "vte" /\ s[2] = " "
    THEN <<" ">> \o ReplaceVte(Drop(s, 2))
    ELSE <<s[1]>> \o ReplaceVte(Tail(s))

\* wiki_noise.replace_all(.., " "): of its alternatives the pieces can spell
\* \bmobile\s+edit\b; prev is the piece before s
RECURSIVE ReplaceWikiNoise(_, _)
ReplaceWikiNoise(s, prev) ==
    IF s = <<>> THEN <<>>
    ELSE IF /\ s[1] = "mobile" /\ ~EndsWithWordChar(prev)
            /\ RunOf(Tail(s), " ") >= 1
            /\ Len(s) >= RunOf(Tail(s), " ") + 2
            /\ s[RunOf(Tail(s), " ") + 2] = "edit"
            /\ (Len(s) >= RunOf(Tail(s), " ") + 3
                    => ~StartsWithWordChar(s[RunOf(Tail(s), " ") + 3]))
    THEN <<" ">> \o ReplaceWikiNoise(Drop(s, RunOf(Tail(s), " ") + 2), "edit")
    ELSE <<s[1]>> \o ReplaceWikiNoise(Tail(s), s[1])

\* the pieces of s from its first blank on
RECURSIVE FromBlank(_)
FromBlank(s) == IF s = <<>> \/ s[1] = " " THEN s ELSE FromBlank(Tail(s))

\* URL_PATTERN.replace_all(.., " ") with the pattern https?://\S+
RECURSIVE ReplaceUrls(_)
ReplaceUrls(s) ==
    IF s = <<>> THEN <<>>
    ELSE IF s[1] = "http://" /\ Len(s) >= 2 /\ s[2] # " "
    THEN <<" ">> \o ReplaceUrls(FromBlank(s))
    ELSE <<s[1]>> \o ReplaceUrls(Tail(s))

\* HTML_ENTITIES.replace_all(.., " ") with the pattern &[a-zA-Z0-9#]+;
ReplaceHtmlEntities(s) == [j \in 1..Len(s) |-> IF s[j] = "&amp;" THEN " " ELSE s[j]]

\* EXCESSIVE_PUNCT.replace_all(.., "...") with the pattern [.!?]{3,}
RECURSIVE ReplaceExcessivePunct(_)
ReplaceExcessivePunct(s) ==
    IF s = <<>> THEN <<>>
    ELSE IF RunOf(s, ".") >= 3
    THEN <<".", ".", ".">> \o ReplaceExcessivePunct(Drop(s, RunOf(s, ".")))
    ELSE <<s[1]>> \o ReplaceExcessivePunct(Tail(s))

\* EXTRA_WHITESPACE.replace_all(.., " ").trim() with the pattern \s+
RECURSIVE ReplaceExtraWhitespace(_)
ReplaceExtraWhitespace(s) ==
    IF s = <<>> THEN <<>>
    ELSE IF s[1] = " " THEN <<" ">> \o ReplaceExtraWhitespace(Drop(s, RunOf(s, " ")))
    ELSE <<s[1]>> \o ReplaceExtraWhitespace(Tail(s))
TrimPieces(s) ==
    SubSeq(s, IF s # <<>> /\ s[1] = " " THEN 2 ELSE 1,
              IF s # <<>> /\ s[Len(s)] = " " THEN Len(s) - 1 ELSE Len(s))

\* FastCleaner::clean_text
clean_text(t) ==
    TrimPieces(ReplaceExtraWhitespace(ReplaceExcessivePunct(ReplaceHtmlEntities(
        ReplaceUrls(ReplaceWikiNoise(ReplaceVte(t), ""))))))

(***************************************************************************)
(* The string functions the pipeline calls on the page, each called on one *)
(* input: lib.rs:187 and 192 call detect_language and is_english, and      *)
(* lib.rs:201 calls clean_description.                                     *)
(***************************************************************************)
\* a string of single characters
Chars(cs) == [j \in 1..Len(cs) |-> Run(cs[j], 1)]

Descriptions ==
    {<<>>,
     <<Run("a", 60)>>,
     <<Run("a", 400)>>,
     <<Run("a", 100), Run(".", 1), Run("a", 300)>>,
     <<Run("a", 100), Run(" ", 1), Run("a", 300)>>,
     <<Run(" ", 2), Run("a", 10), Run("&amp;", 2), Run("a", 5), Run(" ", 1)>>,
     <<Run("E3", 150)>>,
     <<Run("E3", 99), Run("E2", 1), Run("a", 10)>>,
     <<Run("E2", 200)>>,
     <<Run("a", 1), Run("E2", 200)>>,
     <<Run("E4", 100)>>,
     <<Run("a", 50), Run(" ", 1), Run("E3", 100)>>}

Bodies ==
    {<<>>,
     <<Sp>>,
     <<Tag, Wordt(<<Run("a", 4)>>), Tag>>,
     <<Tag, Wordt(<<Run("a", 1200)>>), Tag>>,
     <<Wordt(<<Run("E2", 600)>>)>>,
     <<Wordt(<<Run("E3", 400)>>)>>,
     <<UrlWord(<<Run("a", 30)>>), Sp, Wordt(<<Run("E3", 333)>>), Tag, Wordt(<<Run("E4", 5)>>)>>}

LangAttrs ==
    {<<>>,
     <<Chars(<<"e", "n">>)>>,
     <<Chars(<<"E", "N">>)>>,
     <<Chars(<<"f", "r">>)>>,
     <<Chars(<<"e", "n", "-", "U", "S">>)>>,
     <<Chars(<<"x">>), Chars(<<"e", "n">>)>>,
     <<Chars(<<"E2">>)>>,
     <<Chars(<<"f", "E2">>)>>,
     <<Chars(<<"E2", "f">>)>>,
     <<Chars(<<"E3", "E3">>)>>}

Whatlangs ==
    {None, Some([lang |-> "Eng", confidence |-> 95]), Some([lang |-> "Eng", confidence |-> 60]),
     Some([lang |-> "Fra", confidence |-> 95]), Some([lang |-> "Nld", confidence |-> 99])}

\* a text without a word or a tag holds no "lang="
Texts ==
    {t \in [body : Bodies, langs : LangAttrs, whatlang : Whatlangs] :
        (\A j \in 1..Len(t.body) : t.body[j].k = "sp") => (t.langs = <<>> /\ t.whatlang = None)}

HttpsUrl(domain, path) ==
    [empty |-> FALSE, valid |-> TRUE, domain |-> Some(domain), path |-> path]
\* https://techcrunch.com/article, https://en.wikipedia.org/wiki/Test and
\* https://es.wikipedia.org/wiki/Test
TechcrunchArticle == HttpsUrl(<< <<"techcrunch">>, <<"com">> >>, <<"article">>)
EnWikipediaTest == HttpsUrl(<< <<"en">>, <<"wikipedia">>, <<"org">> >>, <<"wiki", "Test">>)
EsWikipediaTest == HttpsUrl(<< <<"es">>, <<"wikipedia">>, <<"org">> >>, <<"wiki", "Test">>)

PageUrls ==
    {[empty |-> TRUE, valid |-> FALSE, domain |-> None, path |-> <<>>],
     [empty |-> FALSE, valid |-> FALSE, domain |-> None, path |-> <<>>],
     [empty |-> FALSE, valid |-> TRUE, domain |-> None, path |-> <<"en", "x">>],
     TechcrunchArticle, EnWikipediaTest, EsWikipediaTest,
     HttpsUrl(<< <<"example">>, <<"de">> >>, <<"">>),
     HttpsUrl(<< <<"example">>, <<"de">> >>, <<"en">>),
     HttpsUrl(<< <<"example">>, <<"de">> >>, <<"EN", "page">>),
     HttpsUrl(<< <<"example">>, <<"de">> >>, <<"es", "page">>),
     HttpsUrl(<< <<"example">>, <<"com">> >>, <<"es", "page">>),
     HttpsUrl(<< <<"en">>, <<"example">>, <<"de">> >>, <<"">>),
     HttpsUrl(<< <<"my", "wikipedia", "mirror">>, <<"de">> >>, <<"">>)}

\* the texts of up to MaxPieces pieces
PieceTexts == UNION {[1..n -> Pieces] : n \in 0..MaxPieces}

TextInit ==
    /\ ChunkIdle /\ PipeIdle /\ LazyIdle
    /\ \/ call_fn = "clean_description" /\ call_arg \in Descriptions
       \/ call_fn = "clean_text" /\ call_arg \in PieceTexts
       \/ /\ call_fn \in {"detect_language", "is_english"}
          /\ call_arg \in [text : Texts, url : PageUrls]
    /\ call_out = Ok(<<>>)
    /\ call_pc = "call"

\* a call of FastCleaner::clean_description (cleaner.rs:97-124)
CleanDescription ==
    /\ call_pc = "call" /\ call_fn = "clean_description"
    /\ call_out' = clean_description(call_arg)
    /\ call_pc' = IF call_out'.panic THEN "panicked" ELSE "returned"
    /\ UNCHANGED <<call_fn, call_arg>>
    /\ UNCHANGED nonCallVars

\* a call of FastLanguageDetector::detect_language (language_detector.rs:32-54)
DetectLanguage ==
    /\ call_pc = "call" /\ call_fn = "detect_language"
    /\ call_out' = detect_language(call_arg.text, call_arg.url)
    /\ call_pc' = IF call_out'.panic THEN "panicked" ELSE "returned"
    /\ UNCHANGED <<call_fn, call_arg>>
    /\ UNCHANGED nonCallVars

\* a call of FastLanguageDetector::is_english (language_detector.rs:57-61)
IsEnglish ==
    /\ call_pc = "call" /\ call_fn = "is_english"
    /\ call_out' = is_english_fast(call_arg.text, call_arg.url)
    /\ call_pc' = IF call_out'.panic THEN "panicked" ELSE "returned"
    /\ UNCHANGED <<call_fn, call_arg>>
    /\ UNCHANGED nonCallVars

\* a call of FastCleaner::clean_text (lib.rs:199-200)
CleanText ==
    /\ call_pc = "call" /\ call_fn = "clean_text"
    /\ call_out' = Ok(clean_text(call_arg))
    /\ call_pc' = "returned"
    /\ UNCHANGED <<call_fn, call_arg>>
    /\ UNCHANGED nonCallVars

TextNext ==
    \/ CleanDescription
    \/ CleanText
    \/ DetectLanguage
    \/ IsEnglish

SpecText == TextInit /\ [][TextNext]_vars

(***************************************************************************)
(* The main content of a page.  A DOM node is a text node (k = "raw": its  *)
(* id and the length of its text, one word of letters) or an element       *)
(* (k = "tag": its tag name, its class attribute, its children); the       *)
(* document is its <body> element.  An extracted text is a sequence of     *)
(* words [id, len], id naming the text node the word comes from, and of    *)
(* blanks.                                                                 *)
(***************************************************************************)
RawNode(id, len) == [k |-> "raw", id |-> id, len |-> len, tag |-> "", cls |-> "", kids |-> <<>>]
Elem(tag, cls, kids) == [k |-> "tag", id |-> 0, len |-> 0, tag |-> tag, cls |-> cls, kids |-> kids]
Txt(id, len) == [id |-> id, len |-> len]
Blank == Txt(0, 1)

RECURSIVE TextLen(_)
TextLen(s) == IF s = <<>> THEN 0 ELSE s[1].len + TextLen(Tail(s))
\* str::trim
RECURSIVE TrimBlanksStart(_)
TrimBlanksStart(s) == IF s # <<>> /\ s[1] = Blank THEN TrimBlanksStart(Tail(s)) ELSE s
RECURSIVE TrimBlanksEnd(_)
TrimBlanksEnd(s) ==
    IF s # <<>> /\ s[Len(s)] = Blank THEN TrimBlanksEnd(SubSeq(s, 1, Len(s) - 1)) ELSE s
TrimText(s) == TrimBlanksEnd(TrimBlanksStart(s))
\* a run of blanks becomes one blank
RECURSIVE CollapseBlanks(_)
CollapseBlanks(s) ==
    IF s = <<>> THEN <<>>
    ELSE IF s[1] = Blank /\ Len(s) > 1 /\ s[2] = Blank THEN CollapseBlanks(Tail(s))
    ELSE <<s[1]>> \o CollapseBlanks(Tail(s))
\* split_whitespace().collect::<Vec<_>>().join(" ")
SplitJoin(s) == TrimText(CollapseBlanks(s))

\* the elements of a subtree in document order, the order in which
\* VDom::query_selector yields its matches
RECURSIVE Elements(_)
RECURSIVE ElementsOfAll(_)
Elements(node) == IF node.k = "raw" THEN <<>> ELSE <<node>> \o ElementsOfAll(node.kids)
ElementsOfAll(kids) ==
    IF kids = <<>> THEN <<>> ELSE Elements(kids[1]) \o ElementsOfAll(Tail(kids))

\* a selector: a tag name, ".class", "#id", "[role='main']" or "body > tag".
\* The elements of the model carry no id and no role attribute.
Sel(kind, name) == [kind |-> kind, name |-> name]
Matches(sel, e, dom) ==
    CASE sel.kind = "tag" -> e.tag = sel.name
      [] sel.kind = "class" -> e.cls = sel.name
      [] sel.kind = "child" -> e.tag = sel.name /\ \E j \in 1..Len(dom.kids) : dom.kids[j] = e
      [] OTHER -> FALSE
\* dom.query_selector(selector), as a sequence
query_selector(dom, sel) == SelectSeq(Elements(dom), LAMBDA e : Matches(sel, e, dom))

\* the substrings of the two noise lists a class name of the model contains
ClassTokens(cls) == IF cls = "sidebar" THEN {"sidebar"} ELSE {}

\* MainContentExtractor::extract_clean_text_from_node
\* (main_content_extractor.rs:43-97)
RECURSIVE main_extract_clean_text_from_node(_)
RECURSIVE MainChildrenText(_)
main_extract_clean_text_from_node(node) ==
    IF node.k = "raw"
    THEN SplitJoin(IF node.len > 20 THEN <<Txt(node.id, node.len), Blank>> ELSE <<>>)
    ELSE IF node.tag \in {"script", "style", "noscript", "nav", "header", "footer", "aside",
                          "menu", "menuitem", "figure", "figcaption", "button", "input",
                          "select", "textarea", "form", "iframe"}
    THEN <<>>
    ELSE IF ClassTokens(node.cls) \cap {"nav", "menu", "sidebar", "footer", "header", "ad",
                                        "popup", "banner"} # {}
    THEN <<>>
    ELSE SplitJoin(MainChildrenText(node.kids))
MainChildrenText(kids) ==
    IF kids = <<>> THEN <<>>
    ELSE main_extract_clean_text_from_node(kids[1]) \o <<Blank>> \o MainChildrenText(Tail(kids))

\* the content_selectors of MainContentExtractor and of OptimizedExtractor
\* (main_content_extractor.rs:10-15, optimized.rs:411-416)
content_selectors ==
    <<Sel("tag", "main"), Sel("tag", "article"), Sel("class", "content"),
      Sel("class", "post-content"), Sel("class", "entry-content"), Sel("id", "content"),
      Sel("class", "article-body"), Sel("class", "post-body"), Sel("class", "article-text"),
      Sel("role", "main"), Sel("class", "main-content"), Sel("class", "page-content"),
      Sel("class", "content-wrapper"), Sel("class", "story-content"),
      Sel("class", "article-wrapper"), Sel("class", "text-content")>>

\* main_content_extractor.rs:20-30: what the loop appends to main_text for
\* the matches of one selector, and for a list of selectors
MainAppendOne(matches) ==
    IF matches # <<>>
       /\ TextLen(TrimText(main_extract_clean_text_from_node(Head(matches)))) > 50
    THEN main_extract_clean_text_from_node(Head(matches)) \o <<Blank>>
    ELSE <<>>
RECURSIVE MainAppend(_, _)
MainAppend(dom, selectors) ==
    IF selectors = <<>> THEN <<>>
    ELSE MainAppendOne(query_selector(dom, Head(selectors))) \o MainAppend(dom, Tail(selectors))

\* MainContentExtractor::extract_main_content (main_content_extractor.rs:8-41)
MainFallback(dom, main_text) ==
    IF TrimText(main_text) = <<>>
    THEN TrimText(main_text \o main_extract_clean_text_from_node(dom))
    ELSE TrimText(main_text)
main_extract_main_content(dom) == MainFallback(dom, MainAppend(dom, content_selectors))

\* OptimizedExtractor::extract_clean_text_from_node (optimized.rs:441-494)
RECURSIVE optimized_extract_clean_text_from_node(_)
RECURSIVE OptimizedChildrenText(_)
optimized_extract_clean_text_from_node(node) ==
    IF node.k = "raw" THEN <<Txt(node.id, node.len)>>
    ELSE IF node.tag \in {"script", "style", "noscript", "nav", "header", "footer", "aside",
                          "menu", "menuitem", "figure", "figcaption", "button", "input",
                          "select", "textarea", "form"}
    THEN <<>>
    ELSE IF ClassTokens(node.cls) \cap {"nav", "menu", "sidebar", "footer", "header", "ad",
                                        "mw-parser-output", "navbox", "hlist", "infobox"} # {}
    THEN <<>>
    ELSE OptimizedChildrenText(node.kids)
OptimizedChildrenText(kids) ==
    IF kids = <<>> THEN <<>>
    ELSE optimized_extract_clean_text_from_node(kids[1]) \o <<Blank>>
         \o OptimizedChildrenText(Tail(kids))

\* OptimizedExtractor::clean_body_text (optimized.rs:767-779) on a text of
\* one line
optimized_clean_body_text(s) == IF TextLen(TrimText(s)) > 10 THEN SplitJoin(s) ELSE <<>>
\* OptimizedExtractor::extract_readable_content (optimized.rs:781-836) on a
\* text of one line, its words made of letters and none of them a word the
\* filter looks for
extract_readable_content(raw_content) ==
    optimized_clean_body_text(IF TextLen(TrimText(raw_content)) < 10 THEN <<>>
                              ELSE TrimText(raw_content))

\* OptimizedExtractor::extract_main_content (optimized.rs:409-439)
RECURSIVE OptimizedTry(_, _)
OptimizedTry(dom, selectors) ==
    IF selectors = <<>>
    THEN extract_readable_content(optimized_extract_clean_text_from_node(dom))
    ELSE IF /\ query_selector(dom, Head(selectors)) # <<>>
            /\ TextLen(TrimText(optimized_extract_clean_text_from_node(
                   Head(query_selector(dom, Head(selectors)))))) > 100
    THEN optimized_clean_body_text(optimized_extract_clean_text_from_node(
             Head(query_selector(dom, Head(selectors)))))
    ELSE OptimizedTry(dom, Tail(selectors))
optimized_extract_main_content(dom) == OptimizedTry(dom, content_selectors)

\* tl::Node::inner_text: the text nodes of the subtree, one after the other
RECURSIVE inner_text(_)
RECURSIVE InnerTextOfAll(_)
inner_text(node) ==
    IF node.k = "raw" THEN <<Txt(node.id, node.len)>> ELSE InnerTextOfAll(node.kids)
InnerTextOfAll(kids) ==
    IF kids = <<>> THEN <<>> ELSE inner_text(kids[1]) \o InnerTextOfAll(Tail(kids))

\* FastExtractor::clean_body_text (extractor.rs:920-950) on a text of one
\* line that holds none of the phrases the filter looks for
fast_clean_body_text(s) ==
    IF TextLen(TrimText(s)) > 3 /\ TextLen(TrimText(s)) < 500 THEN s ELSE <<>>

\* the selector lists of FastExtractor::extract_main_content
\* (extractor.rs:852-863, 880-889)
fast_content_selectors ==
    <<Sel("tag", "main"), Sel("tag", "article"), Sel("role", "main"), Sel("class", "content"),
      Sel("class", "post-content"), Sel("class", "entry-content"),
      Sel("class", "article-content"), Sel("id", "content"), Sel("id", "main"),
      Sel("class", "main-content")>>
broad_selectors ==
    <<Sel("class", "container"), Sel("class", "wrapper"), Sel("id", "wrapper"),
      Sel("class", "page"), Sel("class", "page-content"), Sel("child", "div"),
      Sel("child", "main"), Sel("child", "section")>>

\* the matches of a list of selectors: selector by selector, each in
\* document order
RECURSIVE AllMatches(_, _)
AllMatches(dom, selectors) ==
    IF selectors = <<>> THEN <<>>
    ELSE query_selector(dom, Head(selectors)) \o AllMatches(dom, Tail(selectors))
InnerTexts(nodes) == [j \in 1..Len(nodes) |-> inner_text(nodes[j])]
CleanedTexts(texts) == [j \in 1..Len(texts) |-> fast_clean_body_text(texts[j])]
LongerThan(texts, min) == SelectSeq(texts, LAMBDA t : TextLen(TrimText(t)) > min)

\* FastExtractor::extract_main_content (extractor.rs:850-918): the first
\* text long enough of the priority selectors, of the broad selectors, of
\* the body
FirstOf(priority, broad, body) ==
    IF priority # <<>> THEN Head(priority)
    ELSE IF broad # <<>> THEN Head(broad)
    ELSE IF body # <<>> THEN Head(body)
    ELSE <<>>
fast_extract_main_content(dom) ==
    FirstOf(LongerThan(InnerTexts(AllMatches(dom, fast_content_selectors)), 30),
            LongerThan(CleanedTexts(InnerTexts(AllMatches(dom, broad_selectors))), 30),
            LongerThan(CleanedTexts(<<inner_text(dom)>>), 20))

(***************************************************************************)
(* The three extract_main_content, each called on one document.            *)
(***************************************************************************)
\* an element around one text node of 120 or 40 bytes
Paragraphs(id) ==
    {Elem(t, c, <<RawNode(id, n)>>) :
        t \in {"article", "nav", "p"}, c \in {"", "sidebar"}, n \in {120, 40}}
\* an element around a paragraph, with or without a short text node after it
Sections(id) ==
    {Elem(t, c, <<e>> \o x) :
        t \in {"main", "nav", "div"}, c \in {"", "content"}, e \in Paragraphs(id),
        x \in {<<>>, <<RawNode(id + 1, 15)>>}}
Doms ==
    {Elem("body", "", <<b>>) : b \in Paragraphs(1) \cup Sections(1)}
    \cup {Elem("body", "", <<b, c>>) : b \in Paragraphs(1) \cup Sections(1), c \in Paragraphs(3)}

DomInit ==
    /\ ChunkIdle /\ PipeIdle /\ LazyIdle
    /\ call_fn \in {"main_extract_main_content", "optimized_extract_main_content",
                    "fast_extract_main_content"}
    /\ call_arg \in Doms
    /\ call_out = <<>>
    /\ call_pc = "call"

MainExtractMainContent ==
    /\ call_pc = "call" /\ call_fn = "main_extract_main_content"
    /\ call_out' = main_extract_main_content(call_arg)
    /\ call_pc' = "returned"
    /\ UNCHANGED <<call_fn, call_arg>>
    /\ UNCHANGED nonCallVars

OptimizedExtractMainContent ==
    /\ call_pc = "call" /\ call_fn = "optimized_extract_main_content"
    /\ call_out' = optimized_extract_main_content(call_arg)
    /\ call_pc' = "returned"
    /\ UNCHANGED <<call_fn, call_arg>>
    /\ UNCHANGED nonCallVars

FastExtractMainContent ==
    /\ call_pc = "call" /\ call_fn = "fast_extract_main_content"
    /\ call_out' = fast_extract_main_content(call_arg)
    /\ call_pc' = "returned"
    /\ UNCHANGED <<call_fn, call_arg>>
    /\ UNCHANGED nonCallVars

DomNext ==
    \/ MainExtractMainContent
    \/ OptimizedExtractMainContent
    \/ FastExtractMainContent

SpecDom == DomInit /\ [][DomNext]_vars

(***************************************************************************)
(* OptimizedExtractor::find_relevant_headings_for_chunk (optimized.rs).  A *)
(* word is a sequence of characters, a chunk text and a heading text are   *)
(* sequences of words.                                                     *)
(***************************************************************************)
\* the words of a chunk the function looks at, and the headings it returns
\* at most (optimized.rs:678, 698)
WordsChecked == 20
MaxRelevant == 3

LowerWord(w) == [j \in 1..Len(w) |-> to_lowercase(w[j])]
\* text.to_lowercase().split_whitespace()
LowerWords(txt) == [j \in 1..Len(txt) |-> LowerWord(txt[j])]

\* optimized.rs:674-680: the chunk words of more than 3 bytes are filtered
\* first, and of those the first 20 are taken
chunk_words(chunk_text) ==
    Entries(Truncate(SelectSeq(LowerWords(chunk_text), LAMBDA w : Len(w) > 3), WordsChecked))

\* OptimizedExtractor::find_relevant_headings_for_chunk (optimized.rs:672-701)
find_relevant_headings_for_chunk(chunk_text, headings) ==
    Truncate(SelectSeq(headings,
                       LAMBDA h : Entries(LowerWords(h)) \cap chunk_words(chunk_text) # {}),
             MaxRelevant)

WordOf == <<"o", "f">>
WordData == <<"d", "a", "t", "a">>
WordRust == <<"r", "u", "s", "t">>
WordRustCap == <<"R", "u", "s", "t">>
WordSets == <<"s", "e", "t", "s">>
\* chunk texts: up to 24 times the same word, then one more word or none
ChunkTexts ==
    {[j \in 1..n |-> w] \o t :
        n \in {0, 19, 20, 24}, w \in {WordOf, WordData},
        t \in {<<>>, <<WordRust>>, <<WordRustCap>>, <<WordSets>>, <<WordOf>>}}
HeadingTexts == {<<WordRustCap>>, <<WordSets, WordOf>>, <<WordOf>>, <<WordData, WordRust>>}
HeadingLists == UNION {[1..n -> HeadingTexts] : n \in 0..MaxHeadings}

HeadingsInit ==
    /\ ChunkIdle /\ PipeIdle /\ LazyIdle
    /\ call_fn = "find_relevant_headings_for_chunk"
    /\ call_arg \in [chunk_text : ChunkTexts, headings : HeadingLists]
    /\ call_out = <<>>
    /\ call_pc = "call"

FindRelevantHeadings ==
    /\ call_pc = "call" /\ call_fn = "find_relevant_headings_for_chunk"
    /\ call_out' = find_relevant_headings_for_chunk(call_arg.chunk_text, call_arg.headings)
    /\ call_pc' = "returned"
    /\ UNCHANGED <<call_fn, call_arg>>
    /\ UNCHANGED nonCallVars

HeadingsNext == FindRelevantHeadings

SpecHeadings == HeadingsInit /\ [][HeadingsNext]_vars

(***************************************************************************)
(* The author of a page: MetadataExtractor::get_author and                 *)
(* FastExtractor::extract_author_info.  A page is described by its author  *)
(* meta tags, the author and publisher of its JSON-LD blocks and the texts *)
(* of the nodes the author selectors match, in the order of the matches.   *)
(* A JSON value is a string, an object with or without a string "name", an *)
(* array or a number.                                                      *)
(***************************************************************************)
JsonString(s) == [t |-> "string", s |-> s, name |-> None, items |-> <<>>]
JsonObject(name) == [t |-> "object", s |-> <<>>, name |-> name, items |-> <<>>]
JsonArray(items) == [t |-> "array", s |-> <<>>, name |-> None, items |-> items]
JsonNumber == [t |-> "number", s |-> <<>>, name |-> None, items |-> <<>>]

\* MetadataExtractor::extract_name_from_value (metadata_extractor.rs:30-39)
RECURSIVE extract_name_from_value(_)
extract_name_from_value(val) ==
    CASE val.t = "string" -> Some(val.s)
      [] val.t = "object" -> val.name
      [] val.t = "array" ->
            IF val.items = <<>> THEN None ELSE extract_name_from_value(val.items[1])
      [] OTHER -> None

\* .trim() of a value that is not empty after it
TrimmedName(opt) ==
    IF opt.some /\ StrTrim(opt.val) # <<>> THEN Some(StrTrim(opt.val)) ELSE None
NameOfField(field) == IF field.some THEN extract_name_from_value(field.val) ELSE None

\* metadata_extractor.rs:417-432: the author, then the publisher, of each
\* JSON-LD block
RECURSIVE JsonLdAuthor(_)
JsonLdAuthor(blocks) ==
    IF blocks = <<>> THEN None
    ELSE IF TrimmedName(NameOfField(blocks[1].author)).some
    THEN TrimmedName(NameOfField(blocks[1].author))
    ELSE IF TrimmedName(NameOfField(blocks[1].publisher)).some
    THEN TrimmedName(NameOfField(blocks[1].publisher))
    ELSE JsonLdAuthor(Tail(blocks))

\* metadata_extractor.rs:434-441: the first node with a text of 1 to 99 bytes
RECURSIVE NodeAuthor(_)
NodeAuthor(nodes) ==
    IF nodes = <<>> THEN None
    ELSE IF StrTrim(nodes[1]) # <<>> /\ StrLen(StrTrim(nodes[1])) < 100
    THEN Some(StrTrim(nodes[1]))
    ELSE NodeAuthor(Tail(nodes))

\* MetadataExtractor::get_author (metadata_extractor.rs:409-444)
get_author(m) ==
    IF TrimmedName(or_else(m.article_author, m.author)).some
    THEN TrimmedName(or_else(m.article_author, m.author))
    ELSE IF JsonLdAuthor(m.json_ld).some THEN JsonLdAuthor(m.json_ld)
    ELSE NodeAuthor(m.author_nodes)

\* extractor.rs:640-663: of meta_patterns the model has "name:author" and
\* "property:article:author"; the first with a content that is not empty
MetaAuthorName(m) ==
    IF m.author.some /\ m.author.val # <<>> THEN m.author.val
    ELSE IF m.article_author.some /\ m.article_author.val # <<>> THEN m.article_author.val
    ELSE <<>>
\* extractor.rs:677-700: the first of up to 3 nodes with a text of 1 to 200
\* bytes
RECURSIVE SelectorAuthorName(_)
SelectorAuthorName(nodes) ==
    IF nodes = <<>> THEN <<>>
    ELSE IF StrTrim(nodes[1]) # <<>> /\ StrLen(StrTrim(nodes[1])) <= 200
    THEN StrTrim(nodes[1])
    ELSE SelectorAuthorName(Tail(nodes))
\* extractor.rs:703-725: the name of the author object, or the author string,
\* of the first block that has one
RECURSIVE StructuredAuthorName(_)
StructuredAuthorName(blocks) ==
    IF blocks = <<>> THEN <<>>
    ELSE IF /\ blocks[1].author.some /\ blocks[1].author.val.t = "object"
            /\ blocks[1].author.val.name.some /\ blocks[1].author.val.name.val # <<>>
    THEN blocks[1].author.val.name.val
    ELSE IF /\ blocks[1].author.some /\ blocks[1].author.val.t = "string"
            /\ blocks[1].author.val.s # <<>>
    THEN blocks[1].author.val.s
    ELSE StructuredAuthorName(Tail(blocks))

\* FastExtractor::extract_author_info (extractor.rs:636-728): the
\* author_info.name it leaves in the Document
extract_author_info(m) ==
    IF MetaAuthorName(m) # <<>> THEN MetaAuthorName(m)
    ELSE IF SelectorAuthorName(Truncate(m.author_nodes, 3)) # <<>>
    THEN SelectorAuthorName(Truncate(m.author_nodes, 3))
    ELSE StructuredAuthorName(m.json_ld)

ShortName(c) == <<Run(c, 10)>>
LongName == <<Run("a", 150)>>
BlankName == <<Run(" ", 1)>>
JsonLdBlock(author, publisher) == [author |-> author, publisher |-> publisher]
AuthorPages ==
    [article_author : {None, Some(BlankName), Some(ShortName("b"))},
     author : {None, Some(LongName), Some(<<Run(" ", 1), Run("c", 10), Run(" ", 1)>>)},
     json_ld : {<<>>,
                <<JsonLdBlock(Some(JsonString(ShortName("d"))), None)>>,
                <<JsonLdBlock(None, Some(JsonObject(Some(ShortName("e")))))>>,
                <<JsonLdBlock(Some(JsonArray(<<JsonObject(None), JsonString(ShortName("f"))>>)),
                              Some(JsonString(LongName)))>>,
                <<JsonLdBlock(Some(JsonNumber), None),
                  JsonLdBlock(Some(JsonObject(Some(LongName))), None)>>},
     author_nodes : {<<>>,
                     <<ShortName("g")>>,
                     <<<<Run("h", 100)>>, ShortName("g")>>,
                     <<BlankName, LongName, <<Run("E3", 40)>>, ShortName("g")>>}]

AuthorInit ==
    /\ ChunkIdle /\ PipeIdle /\ LazyIdle
    /\ call_fn \in {"get_author", "extract_author_info"}
    /\ call_arg \in AuthorPages
    /\ call_out = <<>>
    /\ call_pc = "call"

GetAuthor ==
    /\ call_pc = "call" /\ call_fn = "get_author"
    /\ call_out' = get_author(call_arg)
    /\ call_pc' = "returned"
    /\ UNCHANGED <<call_fn, call_arg>>
    /\ UNCHANGED nonCallVars

ExtractAuthorInfo ==
    /\ call_pc = "call" /\ call_fn = "extract_author_info"
    /\ call_out' = extract_author_info(call_arg)
    /\ call_pc' = "returned"
    /\ UNCHANGED <<call_fn, call_arg>>
    /\ UNCHANGED nonCallVars

AuthorNext ==
    \/ GetAuthor
    \/ ExtractAuthorInfo

SpecAuthor == AuthorInit /\ [][AuthorNext]_vars

(***************************************************************************)
(* One function called twice on the same input.  A HashMap or HashSet is   *)
(* a set, and a call iterates it in an order of its own: RandomState seeds *)
(* every map anew.                                                         *)
(***************************************************************************)
\* the orders an iteration of a HashMap can take
IterationOrders(map) ==
    {order \in [1..Cardinality(map) -> map] :
        \A i, j \in 1..Cardinality(map) : order[i] = order[j] => i = j}

\* keywords.sort_by(|a, b| b.1.cmp(&a.1)) (extractor.rs:1110): a stable sort
\* by falling count
RECURSIVE sort_by(_)
sort_by(keywords) ==
    IF keywords = <<>> THEN <<>>
    ELSE LET last == keywords[Len(keywords)]
             sorted == sort_by(SubSeq(keywords, 1, Len(keywords) - 1))
         IN  SelectSeq(sorted, LAMBDA e : e.count >= last.count)
             \o <<last>> \o SelectSeq(sorted, LAMBDA e : e.count < last.count)

\* the word_freq maps of extractor.rs:1103-1106
WordFreqMaps ==
    {{},
     {[word |-> Kw(50, 5, FALSE, FALSE), count |-> 3]},
     {[word |-> Kw(50, 5, FALSE, FALSE), count |-> 3],
      [word |-> Kw(51, 5, FALSE, FALSE), count |-> 1]},
     {[word |-> Kw(50, 5, FALSE, FALSE), count |-> 2],
      [word |-> Kw(51, 6, FALSE, FALSE), count |-> 2]},
     {[word |-> Kw(50, 5, FALSE, FALSE), count |-> 2],
      [word |-> Kw(51, 6, FALSE, FALSE), count |-> 2],
      [word |-> Kw(52, 7, FALSE, FALSE), count |-> 4],
      [word |-> Kw(53, 4, FALSE, FALSE), count |-> 1]}}

RepeatInit ==
    /\ ChunkIdle /\ PipeIdle /\ LazyIdle
    /\ \/ call_fn = "extract_keywords_from_content" /\ call_arg \in WordFreqMaps
       \/ call_fn = "calculate_content_quality_score" /\ call_arg \in ScoredDocuments
       \/ call_fn = "get_keywords" /\ call_arg \in Metadata
    /\ call_out = <<>>
    /\ call_pc = "call"

\* a call of FastExtractor::extract_keywords_from_content
\* (extractor.rs:1071-1119) from line 1102 on
RepeatExtractKeywords ==
    /\ call_pc \in {"call", "again"} /\ call_fn = "extract_keywords_from_content"
    /\ \E order \in IterationOrders(call_arg) :
          call_out' = Append(call_out, extract_keywords_from_content(sort_by(order), 10))
    /\ call_pc' = IF call_pc = "call" THEN "again" ELSE "returned"
    /\ UNCHANGED <<call_fn, call_arg>>
    /\ UNCHANGED nonCallVars

\* a call of ContentScorer::calculate_content_quality_score (scorer.rs:110-136)
RepeatContentQualityScore ==
    /\ call_pc \in {"call", "again"} /\ call_fn = "calculate_content_quality_score"
    /\ \E strength \in (IF call_arg.educational = {} THEN {"none"} ELSE call_arg.educational) :
          call_out' = Append(call_out, calculate_content_quality_score(call_arg, strength))
    /\ call_pc' = IF call_pc = "call" THEN "again" ELSE "returned"
    /\ UNCHANGED <<call_fn, call_arg>>
    /\ UNCHANGED nonCallVars

\* a call of MetadataExtractor::get_keywords (metadata_extractor.rs:168-213)
RepeatGetKeywords ==
    /\ call_pc \in {"call", "again"} /\ call_fn = "get_keywords"
    /\ \E keywords \in get_keywords(call_arg) : call_out' = Append(call_out, keywords)
    /\ call_pc' = IF call_pc = "call" THEN "again" ELSE "returned"
    /\ UNCHANGED <<call_fn, call_arg>>
    /\ UNCHANGED nonCallVars

RepeatNext ==
    \/ RepeatExtractKeywords
    \/ RepeatContentQualityScore
    \/ RepeatGetKeywords

SpecRepeat == RepeatInit /\ [][RepeatNext]_vars

(***************************************************************************)
(* The shared tables: the `static X: Lazy<..> = Lazy::new(|| ..)` of       *)
(* cleaner.rs:8-43 and scorer.rs:10-80, dereferenced by several threads.   *)
(* once_cell::sync::Lazy keeps a state word next to the slot of the value: *)
(* the thread that swaps INCOMPLETE for RUNNING runs the closure, stores   *)
(* its value in the slot and stores COMPLETE; a thread that finds RUNNING  *)
(* waits; a thread that finds COMPLETE reads the slot.                     *)
(***************************************************************************)
\* the threads that process pages
NumWorkers == 3
Workers == 1..NumWorkers
\* two of the statics, one of cleaner.rs:8 and one of scorer.rs:10
Tables == {"EXTRA_WHITESPACE", "DOMAIN_SCORES"}

LazyInit ==
    /\ ChunkIdle /\ CallIdle /\ PipeIdle
    /\ cell = [t \in Tables |-> [state |-> "INCOMPLETE", value |-> "none", inits |-> 0]]
    /\ worker = [w \in Workers |-> [pc |-> "idle", table |-> "none", seen |-> "none"]]

\* a worker reaches a use of a table (cleaner.rs:88, scorer.rs:98)
Deref(w, t) ==
    /\ worker[w].pc = "idle"
    /\ worker' = [worker EXCEPT ![w] = [pc |-> "force", table |-> t, seen |-> "none"]]
    /\ UNCHANGED cell
    /\ UNCHANGED nonLazyVars

\* the compare-exchange of the state word lets a thread that reads COMPLETE
\* pass, and a thread that does not read RUNNING take the initialization
MayInitialize_Unguarded(c) == c.state # "COMPLETE"
MayInitialize(c) == c.state = "INCOMPLETE"

\* Lazy::force: the table is there, or this worker is the one to build it; a
\* worker that finds RUNNING waits
Force(w) ==
    /\ worker[w].pc = "force"
    /\ \/ /\ cell[worker[w].table].state = "COMPLETE"
          /\ worker' = [worker EXCEPT ![w].pc = "read"]
          /\ UNCHANGED cell
       \/ /\ MayInitialize(cell[worker[w].table])
          /\ cell' = [cell EXCEPT ![worker[w].table].state = "RUNNING"]
          /\ worker' = [worker EXCEPT ![w].pc = "init"]
    /\ UNCHANGED nonLazyVars

\* the closure of Lazy::new builds the table (Regex::new(..).unwrap(), or the
\* inserts into a HashMap) in a value of its own
RunClosure(w) ==
    /\ worker[w].pc = "init"
    /\ cell' = [cell EXCEPT ![worker[w].table].inits = @ + 1]
    /\ worker' = [worker EXCEPT ![w].pc = "store"]
    /\ UNCHANGED nonLazyVars

\* the value the closure returned is moved into the slot
StoreValue(w) ==
    /\ worker[w].pc = "store"
    /\ cell' = [cell EXCEPT ![worker[w].table].value = "built"]
    /\ worker' = [worker EXCEPT ![w].pc = "publish"]
    /\ UNCHANGED nonLazyVars

\* COMPLETE is stored and the waiting threads are woken
Publish(w) ==
    /\ worker[w].pc = "publish"
    /\ cell' = [cell EXCEPT ![worker[w].table].state = "COMPLETE"]
    /\ worker' = [worker EXCEPT ![w].pc = "read"]
    /\ UNCHANGED nonLazyVars

\* the worker uses the table through the shared reference the deref gave it
\* (replace_all, get, iter: all take &self)
ReadTable(w) ==
    /\ worker[w].pc = "read"
    /\ worker' = [worker EXCEPT ![w].pc = "used", ![w].seen = cell[worker[w].table].value]
    /\ UNCHANGED cell
    /\ UNCHANGED nonLazyVars

\* the worker goes on to its next use of a table
Continue(w) ==
    /\ worker[w].pc = "used"
    /\ worker' = [worker EXCEPT ![w].pc = "idle"]
    /\ UNCHANGED cell
    /\ UNCHANGED nonLazyVars

LazyNext ==
    \E w \in Workers :
        \/ \E t \in Tables : Deref(w, t)
        \/ Force(w)
        \/ RunClosure(w)
        \/ StoreValue(w)
        \/ Publish(w)
        \/ ReadTable(w)
        \/ Continue(w)

SpecLazy == LazyInit /\ [][LazyNext]_vars

(***************************************************************************)
(* Properties of create_chunks.                                            *)
(***************************************************************************)
\* C1: when create_chunks returns, every chunk other than the last has a
\* length between min_size and max_size.
C1_NonLastChunksWithinBounds ==
    ck_pc = "done" =>
        \A i \in 1..(Len(chunks) - 1) :
            min_size <= Len(chunks[i]) /\ Len(chunks[i]) <= max_size

\* the text holds the separator ". " of text.split(". ")
HasSentenceBreak(t) ==
    \E i \in 1..(Len(t) - 1) : t[i] = "." /\ t[i + 1] = " "

\* C22: a text longer than max_size without ". " is packed word by word, so
\* every chunk is within max_size and none holds the whole text.
C22_NoBreakTextChunkedByWords ==
    (ck_pc = "done" /\ Len(text) > max_size /\ ~HasSentenceBreak(text)) =>
        \A i \in 1..Len(chunks) : Len(chunks[i]) <= max_size

\* the sentences of the text as the loop sees them, and its words
SentenceUnits(t) == [j \in 1..Len(SplitSentences(t)) |-> SentenceWithPeriod(SplitSentences(t)[j])]
\* the units a..b joined by single blanks
RECURSIVE JoinUnits(_, _, _)
JoinUnits(units, a, b) ==
    IF a > b THEN <<>>
    ELSE IF a = b THEN units[a]
    ELSE units[a] \o <<" ">> \o JoinUnits(units, a + 1, b)
\* the chunks are runs of consecutive units, one run after the other: each
\* chunk is the trimmed join of units a..b, and the next chunk starts after b
RECURSIVE AreSuccessiveRuns(_, _, _)
AreSuccessiveRuns(chs, units, from) ==
    IF chs = <<>> THEN TRUE
    ELSE \E a \in from..Len(units) : \E b \in a..Len(units) :
            /\ Head(chs) = Trim(JoinUnits(units, a, b))
            /\ AreSuccessiveRuns(Tail(chs), units, b + 1)

C11_EveryChunkReachesMinSize ==
    ck_pc = "done" => \A i \in 1..Len(chunks) : Len(chunks[i]) >= min_size

(***************************************************************************)
(* Properties of the date functions.                                       *)
(***************************************************************************)
\* C3: a date normalizer (FastCleaner::normalize_date, or
\* OptimizedExtractor::parse_date_string) that returns a value returns a
\* string of the shape YYYY-MM-DDTHH:MM:SSZ, never the string it was given
\* or another shape.
C3_NormalizerReturnsCanonicalOrNone ==
    (call_pc = "returned" /\ call_fn \in {"normalize_date", "optimized_parse_date_string"})
        => (call_out.ret.some => IsCanonical(call_out.ret.val))

\* C20: a date function returns on every input: the last stage, which takes
\* a date out of the text by regex and normalizes it again, comes to a result
\* after finitely many calls, also when what it takes out is the whole input
\* and no format parses it.
C20_DateNormalizationTerminates ==
    call_pc # "aborted"

RECURSIVE FirstNormalized(_)
FirstNormalized(candidates) ==
    IF candidates = <<>> THEN None
    ELSE IF Head(candidates).some /\ normalize_date(Head(candidates).val).some
    THEN normalize_date(Head(candidates).val)
    ELSE FirstNormalized(Tail(candidates))

\* C21: the published_date of an emitted Document is the first of the meta
\* tag, the JSON-LD datePublished and the <time> element that normalizes: a
\* candidate that does not normalize is dropped and the next one is tried.
C21_FirstNormalizingCandidateWins ==
    pipe_pc = "emitted" =>
        doc.published_date = FirstNormalized(<<page.meta_pub, page.ld_pub, page.time_dt>>)

C6_EmptyContentHasFloorScore ==
    (pipe_pc = "emitted" /\ doc.main_content = EmptyText) =>
        (doc.word_count = 0 /\ doc.content_quality_score = 0)

\* C12: when the HTML parse fails, process_html returns a dict with the
\* error message and empty main_content, title, description, keywords and
\* text_chunks, and every key of the dict of a successful call is a key of it.
C12_FailureDictHasSuccessKeys ==
    (pipe_pc = "returned" /\ ~page.parse_ok) =>
        /\ "error" \in result.keys
        /\ result.main_content = EmptyText /\ result.title = ""
        /\ result.description = 0 /\ result.keywords = <<>> /\ result.text_chunks = <<>>
        /\ OkKeys \subseteq result.keys

\* C18: the canonical_url of an emitted Document is there only when the page
\* has a <link rel="canonical"> whose href differs from the base url;
\* without such a link, or with one whose href is the base url, it is absent,
\* and never the base url itself.
C18_CanonicalOnlyWhenDifferent ==
    pipe_pc = "emitted" =>
        IF page.canonical.some /\ page.canonical.val.s # page.base_url
        THEN doc.canonical_url # ""
        ELSE doc.canonical_url = ""

\* C19: the content_categories of an emitted Document hold at most three
\* entries and no entry twice.
C19_AtMostThreeDistinctCategories ==
    pipe_pc = "emitted" =>
        /\ Len(doc.content_categories) <= 3
        /\ \A i, j \in 1..Len(doc.content_categories) :
              doc.content_categories[i] = doc.content_categories[j] => i = j

(***************************************************************************)
(* Properties of the string functions.                                     *)
(***************************************************************************)
\* C13: after a successful parse no step of a pipeline call panics: the
\* description truncation, the two-byte language code and the truncation of
\* the detection sample return on every string, multi-byte characters at the
\* cut included.
C13_NoStepAfterParsePanics ==
    call_pc # "panicked"

\* C16: with an empty text is_english is decided by the url: it is true for
\* https://techcrunch.com/article and for https://en.wikipedia.org/wiki/Test
\* and false for https://es.wikipedia.org/wiki/Test.
C16_EmptyTextDecidedByUrl ==
    (call_pc = "returned" /\ call_fn = "is_english" /\ call_arg.text.body = <<>>) =>
        /\ call_arg.url \in {TechcrunchArticle, EnWikipediaTest} => call_out.ret = TRUE
        /\ call_arg.url = EsWikipediaTest => call_out.ret = FALSE

\* C23: clean_text is idempotent: cleaning a cleaned text changes nothing.
C23_CleanTextIdempotent ==
    (call_pc = "returned" /\ call_fn = "clean_text") =>
        clean_text(call_out.ret) = call_out.ret

\* C28: for a url whose path holds a non-English segment (/de/, /es/, /fr/,
\* ...) detect_language does not return "en" and is_english returns false,
\* whatever the host and the text.
C28_NonEnglishPathIsNotEnglish ==
    (call_pc = "returned" /\ call_fn \in {"detect_language", "is_english"}
     /\ call_arg.url.valid /\ PathContains(call_arg.url.path, non_english_indicators)) =>
        /\ call_fn = "detect_language" => ~(call_out.ret.some /\ call_out.ret.val = En)
        /\ call_fn = "is_english" => call_out.ret = FALSE

\* the number of characters of a string, and its first two characters
RECURSIVE CharCount(_)
CharCount(s) == IF s = <<>> THEN 0 ELSE s[1].n + CharCount(Tail(s))
FirstTwoChars(s) == IF s[1].n >= 2 THEN <<Run(s[1].c, 2)>> ELSE <<s[1], Run(s[2].c, 1)>>

\* C17: detect_language decides in three stages.  When the url matches an
\* English indicator the result is "en"; otherwise, when a value of at least
\* two characters follows the first "lang=", the result is its first two
\* characters, lower-cased; only otherwise the result is the one of the
\* statistical detection.
C17_ThreeStageShortCircuit ==
    (call_pc \in {"returned", "panicked"} /\ call_fn = "detect_language") =>
        IF ~call_arg.url.empty /\ detect_from_url(call_arg.url).some
           /\ detect_from_url(call_arg.url).val = "en"
        THEN call_out = Ok(Some(En))
        ELSE IF call_arg.text.langs # <<>> /\ CharCount(call_arg.text.langs[1]) >= 2
        THEN call_out = Ok(Some([j \in 1..Len(FirstTwoChars(call_arg.text.langs[1])) |->
                                   Run(to_lowercase(FirstTwoChars(call_arg.text.langs[1])[j].c),
                                       FirstTwoChars(call_arg.text.langs[1])[j].n)]))
        ELSE call_out = detect_from_content(call_arg.text)

(***************************************************************************)
(* Properties of the main content.                                         *)
(***************************************************************************)
\* how many words of a text come from the text node id
Occurrences(s, id) == Cardinality({j \in 1..Len(s) : s[j].id = id})

\* C24: the main content MainContentExtractor and OptimizedExtractor return
\* comes from one region: no text node contributes more than once.
C24_OneRegionOnly ==
    (call_pc = "returned"
     /\ call_fn \in {"main_extract_main_content", "optimized_extract_main_content"}) =>
        \A id \in 1..4 : Occurrences(call_out, id) <= 1

\* an element the claim calls noise, and the text nodes below such elements
IsNoiseElement(node) ==
    \/ node.tag \in {"script", "style", "noscript", "nav", "header", "footer", "aside",
                     "menu", "menuitem", "figure", "figcaption", "button", "input",
                     "select", "textarea", "form", "iframe"}
    \/ ClassTokens(node.cls) # {}
RECURSIVE NoiseTextNodes(_, _)
RECURSIVE NoiseTextNodesOfAll(_, _)
NoiseTextNodes(node, inside) ==
    IF node.k = "raw" THEN (IF inside THEN {node.id} ELSE {})
    ELSE NoiseTextNodesOfAll(node.kids, inside \/ IsNoiseElement(node))
NoiseTextNodesOfAll(kids, inside) ==
    IF kids = <<>> THEN {}
    ELSE NoiseTextNodes(kids[1], inside) \cup NoiseTextNodesOfAll(Tail(kids), inside)

\* C25: the main content MainContentExtractor and FastExtractor return holds
\* no text of a text node below a noise element.
C25_NoTextFromNoiseSubtrees ==
    (call_pc = "returned"
     /\ call_fn \in {"main_extract_main_content", "fast_extract_main_content"}) =>
        \A j \in 1..Len(call_out) : call_out[j].id \notin NoiseTextNodes(call_arg, FALSE)

(***************************************************************************)
(* Properties of the headings of a chunk.                                  *)
(***************************************************************************)
\* a heading shares a word of more than 3 bytes with the first 20 words of
\* the chunk
SharesEarlyWord(h, chunk_text) ==
    \E i \in 1..Len(h), j \in 1..Len(chunk_text) :
        /\ j <= WordsChecked
        /\ Len(h[i]) > 3
        /\ LowerWord(h[i]) = LowerWord(chunk_text[j])

\* C26: a chunk gets at most 3 headings, and every heading it gets shares a
\* word of more than 3 bytes with the first 20 words of the chunk.
C26_HeadingsShareAnEarlyWord ==
    call_pc = "returned" =>
        /\ Len(call_out) <= MaxRelevant
        /\ \A k \in 1..Len(call_out) : SharesEarlyWord(call_out[k], call_arg.chunk_text)

(***************************************************************************)
(* Properties of the author.                                               *)
(***************************************************************************)
\* C29: the author name get_author returns, and the one extract_author_info
\* leaves in the Document, has at most 100 characters, whichever source it
\* comes from.
C29_AuthorNameAtMostHundredChars ==
    call_pc = "returned" =>
        /\ call_fn = "get_author" => (call_out.some => CharCount(call_out.val) <= 100)
        /\ call_fn = "extract_author_info" => CharCount(call_out) <= 100

(***************************************************************************)
(* Properties of repeated calls.                                           *)
(***************************************************************************)
\* C14: the pipeline is a function of its input: two calls on the same input
\* return the same keywords in the same order and the same
\* content_quality_score, whatever order the hash maps and hash sets are
\* iterated in.
C14_SameInputSameResult ==
    (call_pc = "returned" /\ Len(call_out) = 2) => call_out[1] = call_out[2]

C5_QualityScoreWithinZeroAndTen ==
    /\ pipe_pc = "emitted" =>
            (0 <= doc.content_quality_score /\ doc.content_quality_score <= 10 * ScoreUnit)
    /\ (call_pc = "returned" /\ call_fn = "calculate_content_quality_score") =>
            (0 <= call_out /\ call_out <= 10 * ScoreUnit)
\* an emitted Document of more than 3000 words, with headings, an image, a
\* description and technical content: every term of its score is at its most
C5_Witness ==
    /\ pipe_pc = "emitted"
    /\ doc.word_count > 3 * ScoreUnit /\ doc.headings > 2 /\ doc.images > 0
    /\ doc.description > 50 /\ page.tech
    /\ doc.content_quality_score = 6 * ScoreUnit + ScoreUnit \div 2

\* the strongest of the strengths that have an indicator in the text
Strongest(educational) ==
    IF "strong" \in educational THEN "strong"
    ELSE IF "medium" \in educational THEN "medium"
    ELSE IF "weak" \in educational THEN "weak"
    ELSE "none"

\* C27: calculate_content_type_score applies the multiplier of the strongest
\* strength that has an indicator in the text, 1.4, else 1.25, else 1.1, else
\* none, and never returns less than 0.1.
C27_StrongestMultiplierApplies ==
    (call_pc = "returned" /\ call_fn = "calculate_content_type_score") =>
        /\ call_out = calculate_content_type_score(call_arg, Strongest(call_arg.educational))
        /\ call_out >= 100

\* C8: calculate_domain_score returns 0.9 for en.wikipedia.org, 0.8 for
\* lab.example.edu and 0.3 for randomsite.xyz; a host that is a named domain
\* of DOMAIN_SCORES or one of its subdomains gets the score of that domain.
C8_NamedDomainBeatsTld ==
    (call_pc = "returned" /\ call_fn = "calculate_domain_score" /\ call_arg.domain.some) =>
        LET host == call_arg.domain.val
        IN  /\ host = <<"en", "wikipedia", "org">> => call_out = 900
            /\ host = <<"lab", "example", "edu">> => call_out = 800
            /\ host = <<"randomsite", "xyz">> => call_out = 300
            /\ \A e \in DOMAIN_SCORES :
                   (~e.dotted /\ (host = e.key \/ EndsWithDotted(host, e.key)))
                       => call_out = e.score

(***************************************************************************)
(* Properties of the keywords.                                             *)
(***************************************************************************)
\* C9: in every emitted Document no two keywords are equal ignoring case,
\* every keyword has 3 to 30 characters, and there are at most 15 keywords.
C9_KeywordsDistinctSizedAndCapped ==
    pipe_pc = "emitted" =>
        /\ \A i, j \in 1..Len(doc.keywords) :
               EqualIgnoringCase(doc.keywords[i], doc.keywords[j]) => i = j
        /\ \A i \in 1..Len(doc.keywords) :
               doc.keywords[i].len >= 3 /\ doc.keywords[i].len <= 30
        /\ Len(doc.keywords) <= 15

(***************************************************************************)
(* Properties of the title.                                                *)
(***************************************************************************)
\* C7: get_title returns the first of og:title, twitter:title, <title> and
\* the first <h1> that is non-empty after trimming (trimmed), skipping a
\* candidate that is present but empty or blank; og:title when all four are
\* present and non-empty.
C7_FirstNonEmptyCandidateWins ==
    (call_pc = "returned" /\ call_fn = "get_title") =>
        call_out = FirstSome(<<TrimmedNonEmpty(call_arg.og_title),
                               TrimmedNonEmpty(call_arg.twitter_title),
                               TrimmedNonEmpty(call_arg.title),
                               TrimmedNonEmpty(call_arg.h1)>>)

====
